---- MODULE Spec2Model ----
(***************************************************************************)
(* A model of the GoKid interpreter (xspoilt-dev/gokid): the lexer, the    *)
(* Pratt parser, the tree-walking evaluator with its chained Environments, *)
(* the REPL loop and the file runner.  Each Go function is an operator of  *)
(* the same name; a Go object that is mutated through a pointer (the       *)
(* lexer, the parser, the environments) is a record that the operator      *)
(* takes and returns.  Source text is a TLA+ string, a byte is a string of *)
(* length one.                                                             *)
(***************************************************************************)
EXTENDS Integers, Sequences, FiniteSets, TLC


(***************************************************************************)
(* tokens/tokens.go                                                        *)
(***************************************************************************)

\* The sentinel byte 0 that readChar loads at the end of the input.
NUL == "NUL"

keywords ==
  [ let |-> "LET", const |-> "CONST", var |-> "VAR", fn |-> "FUNCTION",
    function |-> "FUNCTION", return |-> "RETURN", if |-> "IF", else |-> "ELSE",
    while |-> "WHILE", for |-> "FOR", break |-> "BREAK",
    continue |-> "CONTINUE", switch |-> "SWITCH", case |-> "CASE",
    default |-> "DEFAULT", true |-> "TRUE", false |-> "FALSE",
    null |-> "NULL", string |-> "STRING_TYPE", int |-> "INT_TYPE",
    float |-> "FLOAT_TYPE", bool |-> "BOOL_TYPE", array |-> "ARRAY_TYPE",
    object |-> "OBJECT_TYPE", class |-> "CLASS", this |-> "THIS",
    new |-> "NEW", extends |-> "EXTENDS", super |-> "SUPER", try |-> "TRY",
    catch |-> "CATCH", throw |-> "THROW", finally |-> "FINALLY",
    import |-> "IMPORT", export |-> "EXPORT", from |-> "FROM", as |-> "AS",
    global |-> "GLOBAL", local |-> "LOCAL", print |-> "PRINT", len |-> "LEN",
    type |-> "TYPE" ]

LookupIdent(ident) ==
  IF ident \in DOMAIN keywords THEN keywords[ident] ELSE "IDENT"

Token(type, literal) == [Type |-> type, Literal |-> literal]

(***************************************************************************)
(* lexer/lexer.go                                                          *)
(***************************************************************************)

\* input[i] of the Go string, i counted from 0.
ByteAt(input, i) == SubSeq(input, i + 1, i + 1)

readChar(l) ==
  [ l EXCEPT !.ch = IF l.readPosition >= Len(l.input) THEN NUL
                    ELSE ByteAt(l.input, l.readPosition),
             !.position = l.readPosition,
             !.readPosition = l.readPosition + 1 ]

NewLexer(input) ==
  readChar([input |-> input, position |-> 0, readPosition |-> 0, ch |-> NUL])

peekChar(l) ==
  IF l.readPosition >= Len(l.input) THEN NUL ELSE ByteAt(l.input, l.readPosition)

isLetter(ch) ==
  ch \in { "a", "b", "c", "d", "e", "f", "g", "h", "i", "j", "k", "l", "m",
           "n", "o", "p", "q", "r", "s", "t", "u", "v", "w", "x", "y", "z",
           "A", "B", "C", "D", "E", "F", "G", "H", "I", "J", "K", "L", "M",
           "N", "O", "P", "Q", "R", "S", "T", "U", "V", "W", "X", "Y", "Z",
           "_" }

isDigit(ch) == ch \in {"0", "1", "2", "3", "4", "5", "6", "7", "8", "9"}

RECURSIVE skipWhitespace(_)
skipWhitespace(l) ==
  IF l.ch \in {" ", "\t", "\n", "\r"} THEN skipWhitespace(readChar(l)) ELSE l

newToken(tokenType, ch) == Token(tokenType, ch)

\* The loop "for isLetter(l.ch) { l.readChar() }" of readIdentifier.
RECURSIVE SkipLetters(_)
SkipLetters(l) == IF isLetter(l.ch) THEN SkipLetters(readChar(l)) ELSE l

\* The loop "for isDigit(l.ch) { l.readChar() }" of readNumber.
RECURSIVE SkipDigits(_)
SkipDigits(l) == IF isDigit(l.ch) THEN SkipDigits(readChar(l)) ELSE l

\* input[from:to]
Slice(input, from, to) == SubSeq(input, from + 1, to)

\* Returns the literal and the lexer after it.
readIdentifier(l) ==
  LET l1 == SkipLetters(l)
  IN  [lit |-> Slice(l.input, l.position, l1.position), l |-> l1]

\* readNumber that takes the dot after the digits whatever follows it.
readNumberTrailingDot(l) ==
  LET l1 == SkipDigits(l)
      isFloat == l1.ch = "."
      l2 == IF isFloat THEN SkipDigits(readChar(l1)) ELSE l1
  IN  [ lit |-> Slice(l.input, l.position, l2.position),
        type |-> IF isFloat THEN "FLOAT" ELSE "INT",
        l |-> l2 ]

\* Returns the literal, the token type and the lexer after it.
readNumber(l) ==
  LET l1 == SkipDigits(l)
      isFloat == l1.ch = "." /\ isDigit(peekChar(l1))
      l2 == IF isFloat THEN SkipDigits(readChar(l1)) ELSE l1
  IN  [ lit |-> Slice(l.input, l.position, l2.position),
        type |-> IF isFloat THEN "FLOAT" ELSE "INT",
        l |-> l2 ]

\* The loop of readString: readChar until the closing quote or the end.
RECURSIVE SkipString(_)
SkipString(l) ==
  LET l1 == readChar(l)
  IN  IF l1.ch = "\"" \/ l1.ch = NUL THEN l1 ELSE SkipString(l1)

readString(l) ==
  LET l1 == SkipString(l)
  IN  [lit |-> Slice(l.input, l.position + 1, l1.position), l |-> l1]

\* "ch := l.ch; l.readChar(); literal := string(ch) + string(l.ch)": the
\* two-byte operators.  Returns the token and the lexer on its second byte.
TwoByteToken(l, tokenType) ==
  LET l1 == readChar(l)
  IN  [tok |-> Token(tokenType, l.ch \o l1.ch), l |-> l1]

OneByteToken(l, tokenType) == [tok |-> newToken(tokenType, l.ch), l |-> l]

\* The switch of NextToken for the tokens that end with the common
\* l.readChar(): the token and the lexer before that readChar.
SwitchToken(l) ==
  LET pk == peekChar(l)
  IN  CASE l.ch = "=" ->
             IF pk = "=" THEN TwoByteToken(l, "==")
             ELSE IF pk = ">" THEN TwoByteToken(l, "=>")
             ELSE OneByteToken(l, "=")
        [] l.ch = "+" ->
             IF pk = "=" THEN TwoByteToken(l, "+=") ELSE OneByteToken(l, "+")
        [] l.ch = "-" ->
             IF pk = "=" THEN TwoByteToken(l, "-=") ELSE OneByteToken(l, "-")
        [] l.ch = "*" ->
             IF pk = "*" THEN TwoByteToken(l, "**")
             ELSE IF pk = "=" THEN TwoByteToken(l, "*=")
             ELSE OneByteToken(l, "*")
        [] l.ch = "/" ->
             IF pk = "=" THEN TwoByteToken(l, "/=") ELSE OneByteToken(l, "/")
        [] l.ch = "%" -> OneByteToken(l, "%")
        [] l.ch = "!" ->
             IF pk = "=" THEN TwoByteToken(l, "!=") ELSE OneByteToken(l, "!")
        [] l.ch = "<" ->
             IF pk = "=" THEN TwoByteToken(l, "<=") ELSE OneByteToken(l, "<")
        [] l.ch = ">" ->
             IF pk = "=" THEN TwoByteToken(l, ">=") ELSE OneByteToken(l, ">")
        [] l.ch = "&" ->
             IF pk = "&" THEN TwoByteToken(l, "&&")
             ELSE OneByteToken(l, "ILLEGAL")
        [] l.ch = "|" ->
             IF pk = "|" THEN TwoByteToken(l, "||")
             ELSE OneByteToken(l, "ILLEGAL")
        [] l.ch \in {"(", ")", "{", "}", "[", "]", ",", ";", ":", ".", "?",
                     "@", "#"} -> OneByteToken(l, l.ch)
        [] l.ch = "\"" ->
             LET s == readString(l) IN [tok |-> Token("STRING", s.lit), l |-> s.l]
        [] l.ch = NUL -> [tok |-> Token("EOF", ""), l |-> l]
        [] OTHER -> OneByteToken(l, "ILLEGAL")

\* Returns the token and the lexer after it.
NextToken(l0) ==
  LET l == skipWhitespace(l0)
  IN  IF isLetter(l.ch)
      THEN LET r == readIdentifier(l)
           IN  [tok |-> Token(LookupIdent(r.lit), r.lit), l |-> r.l]
      ELSE IF isDigit(l.ch)
      THEN LET r == readNumber(l)
           IN  [tok |-> Token(r.type, r.lit), l |-> r.l]
      ELSE LET r == SwitchToken(l)
           IN  [tok |-> r.tok, l |-> readChar(r.l)]

(***************************************************************************)
(* tokenizer/tokenizer.go                                                  *)
(***************************************************************************)

RECURSIVE GetTokensFrom(_)
GetTokensFrom(l) ==
  LET r == NextToken(l)
  IN  IF r.tok.Type = "EOF" THEN <<>> ELSE <<r.tok>> \o GetTokensFrom(r.l)

GetTokens(input) == GetTokensFrom(NewLexer(input))

(***************************************************************************)
(* parser/ast.go: a node is a record with its Go type in "kind"; the Token  *)
(* field, which only TokenLiteral reads, is left out.  A nil interface is   *)
(* Nil; a nil pointer of type T held in an interface is TypedNil(T).        *)
(***************************************************************************)

Nil == [kind |-> "nil"]
TypedNil(t) == [kind |-> "nil", of |-> t]
IsNil(n) == n.kind = "nil"

\* v == nil on an interface value: a typed nil pointer in it is not nil.
IsNilInterface(n) == n.kind = "nil" /\ "of" \notin DOMAIN n

Identifier(value) == [kind |-> "Identifier", Value |-> value]

(***************************************************************************)
(* parser/parser.go                                                        *)
(***************************************************************************)

LOWEST == 1
ASSIGN == 2
TERNARY == 3
OR == 4
AND == 5
EQUALS == 6
LESSGREATER == 7
SUM == 8
PRODUCT == 9
POWER == 10
PREFIX == 11
CALL == 12
INDEX == 13

\* The precedences map; 0 stands for "no entry".
precedences(t) ==
  CASE t \in {"=", "+=", "-=", "*=", "/="} -> ASSIGN
    [] t = "?" -> TERNARY
    [] t = "||" -> OR
    [] t = "&&" -> AND
    [] t \in {"==", "!="} -> EQUALS
    [] t \in {"<", ">", "<=", ">="} -> LESSGREATER
    [] t \in {"+", "-"} -> SUM
    [] t \in {"/", "*", "%"} -> PRODUCT
    [] t = "**" -> POWER
    [] t = "(" -> CALL
    [] t \in {"[", "."} -> INDEX
    [] OTHER -> 0

\* The registrations of New: the name of the prefix parse function of a
\* token type, "nil" when there is none.
prefixParseFns(t) ==
  CASE t \in {"IDENT", "PRINT", "LEN", "TYPE"} -> "parseIdentifier"
    [] t = "INT" -> "parseIntegerLiteral"
    [] t = "FLOAT" -> "parseFloatLiteral"
    [] t = "STRING" -> "parseStringLiteral"
    [] t \in {"TRUE", "FALSE"} -> "parseBooleanLiteral"
    [] t = "NULL" -> "parseNullLiteral"
    [] t \in {"!", "-"} -> "parsePrefixExpression"
    [] t = "(" -> "parseGroupedExpression"
    [] t = "IF" -> "parseIfExpression"
    [] t = "FUNCTION" -> "parseFunctionLiteral"
    [] t = "[" -> "parseArrayLiteral"
    [] t = "{" -> "parseObjectLiteral"
    [] OTHER -> "nil"

infixParseFns(t) ==
  CASE t \in {"+", "-", "/", "*", "%", "**", "==", "!=", "<", ">", "<=", ">=",
              "&&", "||"} -> "parseInfixExpression"
    [] t \in {"=", "+=", "-=", "*=", "/="} -> "parseAssignmentExpression"
    [] t = "(" -> "parseCallExpression"
    [] t = "[" -> "parseIndexExpression"
    [] t = "." -> "parseDotExpression"
    [] t = "?" -> "parseTernaryExpression"
    [] OTHER -> "nil"

RECURSIVE Call(_, _)

nextToken(p) ==
  LET r == NextToken(p.l)
  IN  [p EXCEPT !.curToken = p.peekToken, !.peekToken = r.tok, !.l = r.l]

New(l) ==
  Call("nextToken", <<Call("nextToken", <<[ l |-> l, curToken |-> Token("", ""),
                        peekToken |-> Token("", ""), errors |-> <<>> ]>>)>>)

curTokenIs(p, t) == p.curToken.Type = t
peekTokenIs(p, t) == p.peekToken.Type = t

AddError(p, msg) == [p EXCEPT !.errors = Append(p.errors, msg)]

peekError(p, t) ==
  AddError(p, "expected next token to be " \o t \o ", got "
              \o p.peekToken.Type \o " instead")

noPrefixParseFnError(p, t) ==
  AddError(p, "no prefix parse function for " \o t \o " found")

\* Returns ok and the parser.
expectPeek(p, t) ==
  IF peekTokenIs(p, t) THEN [ok |-> TRUE, p |-> Call("nextToken", <<p>>)]
  ELSE [ok |-> FALSE, p |-> peekError(p, t)]

peekPrecedence(p) ==
  IF precedences(p.peekToken.Type) # 0 THEN precedences(p.peekToken.Type)
  ELSE LOWEST

curPrecedence(p) ==
  IF precedences(p.curToken.Type) # 0 THEN precedences(p.curToken.Type)
  ELSE LOWEST

\* "if p.peekTokenIs(tokens.SEMICOLON) { p.nextToken() }"
SkipSemicolon(p) == IF peekTokenIs(p, ";") THEN Call("nextToken", <<p>>) ELSE p

DigitValue(ch) ==
  CASE ch = "0" -> 0 [] ch = "1" -> 1 [] ch = "2" -> 2 [] ch = "3" -> 3
    [] ch = "4" -> 4 [] ch = "5" -> 5 [] ch = "6" -> 6 [] ch = "7" -> 7
    [] ch = "8" -> 8 [] ch = "9" -> 9

\* The digits of s read in the given base, most significant first; -1 when
\* a digit is not below the base.
RECURSIVE DigitsIn(_, _, _)
DigitsIn(s, base, acc) ==
  IF s = "" THEN acc
  ELSE IF DigitValue(Head(s)) >= base THEN -1
  ELSE DigitsIn(Tail(s), base, acc * base + DigitValue(Head(s)))

\* strconv.ParseInt(s, 0, 64) on a literal of the lexer (decimal digits
\* only): base 0 reads a leading "0" as the octal prefix.  err is TRUE for
\* a syntax error.
ParseInt(s) ==
  LET base == IF Len(s) > 1 /\ Head(s) = "0" THEN 8 ELSE 10
      body == IF base = 8 THEN Tail(s) ELSE s
      v == DigitsIn(body, base, 0)
  IN  [value |-> v, err |-> v < 0]

RECURSIVE GCD(_, _)
GCD(a, b) == IF b = 0 THEN a ELSE GCD(b, a % b)

Abs(a) == IF a < 0 THEN -a ELSE a

\* A float64 is the rational num/den in lowest terms, den > 0: exact for
\* the values the model computes.
Rat(num, den) ==
  LET g == GCD(Abs(num), Abs(den))
      sgn == IF den < 0 THEN -1 ELSE 1
  IN  [num |-> sgn * (num \div g), den |-> sgn * (den \div g)]

RECURSIVE Pow10(_)
Pow10(n) == IF n = 0 THEN 1 ELSE 10 * Pow10(n - 1)

RECURSIVE DotIndex(_)
DotIndex(s) == IF Head(s) = "." THEN 1 ELSE 1 + DotIndex(Tail(s))

\* strconv.ParseFloat(s, 64) on a literal of the lexer (digits "." digits).
ParseFloat(s) ==
  LET d == DotIndex(s)
      ip == SubSeq(s, 1, d - 1)
      fp == SubSeq(s, d + 1, Len(s))
  IN  Rat(DigitsIn(ip, 10, 0) * Pow10(Len(fp)) + DigitsIn(fp, 10, 0),
          Pow10(Len(fp)))


parseLetStatement(p) ==
  LET e1 == Call("expectPeek", <<p, "IDENT">>)
      name == Identifier(e1.p.curToken.Literal)
      e2 == Call("expectPeek", <<e1.p, "=">>)
      v == Call("parseExpression", <<Call("nextToken", <<e2.p>>), LOWEST>>)
  IN  IF ~e1.ok THEN [n |-> TypedNil("LetStatement"), p |-> e1.p]
      ELSE IF ~e2.ok THEN [n |-> TypedNil("LetStatement"), p |-> e2.p]
      ELSE [ n |-> [kind |-> "LetStatement", Name |-> name, Value |-> v.n],
             p |-> Call("SkipSemicolon", <<v.p>>) ]

parseConstStatement(p) ==
  LET e1 == Call("expectPeek", <<p, "IDENT">>)
      name == Identifier(e1.p.curToken.Literal)
      e2 == Call("expectPeek", <<e1.p, "=">>)
      v == Call("parseExpression", <<Call("nextToken", <<e2.p>>), LOWEST>>)
  IN  IF ~e1.ok THEN [n |-> TypedNil("ConstStatement"), p |-> e1.p]
      ELSE IF ~e2.ok THEN [n |-> TypedNil("ConstStatement"), p |-> e2.p]
      ELSE [ n |-> [kind |-> "ConstStatement", Name |-> name, Value |-> v.n],
             p |-> Call("SkipSemicolon", <<v.p>>) ]

parseVarStatement(p) ==
  LET e1 == Call("expectPeek", <<p, "IDENT">>)
      name == Identifier(e1.p.curToken.Literal)
      v == Call("parseExpression", <<Call("nextToken", <<Call("nextToken", <<e1.p>>)>>), LOWEST>>)
  IN  IF ~e1.ok THEN [n |-> TypedNil("VarStatement"), p |-> e1.p]
      ELSE IF peekTokenIs(e1.p, "=")
      THEN [ n |-> [kind |-> "VarStatement", Name |-> name, Value |-> v.n],
             p |-> Call("SkipSemicolon", <<v.p>>) ]
      ELSE [ n |-> [kind |-> "VarStatement", Name |-> name, Value |-> Nil],
             p |-> Call("SkipSemicolon", <<e1.p>>) ]

parseReturnStatement(p) ==
  LET v == Call("parseExpression", <<Call("nextToken", <<p>>), LOWEST>>)
  IN  [ n |-> [kind |-> "ReturnStatement", ReturnValue |-> v.n],
        p |-> Call("SkipSemicolon", <<v.p>>) ]

parseExpressionStatement(p) ==
  LET v == Call("parseExpression", <<p, LOWEST>>)
  IN  [ n |-> [kind |-> "ExpressionStatement", Expression |-> v.n],
        p |-> Call("SkipSemicolon", <<v.p>>) ]

\* The loop of parseBlockStatement: the statements and the parser after.
RECURSIVE BlockLoop(_, _)
BlockLoop(p, stmts) ==
  IF curTokenIs(p, "}") \/ curTokenIs(p, "EOF") THEN [n |-> stmts, p |-> p]
  ELSE LET s == Call("parseStatement", <<p>>)
       IN  BlockLoop(Call("nextToken", <<s.p>>), Append(stmts, s.n))

parseBlockStatement(p) ==
  LET r == BlockLoop(Call("nextToken", <<p>>), <<>>)
  IN  [n |-> [kind |-> "BlockStatement", Statements |-> r.n], p |-> r.p]

parseWhileStatement(p) ==
  LET e1 == Call("expectPeek", <<p, "(">>)
      c == Call("parseExpression", <<Call("nextToken", <<e1.p>>), LOWEST>>)
      e2 == Call("expectPeek", <<c.p, ")">>)
      e3 == Call("expectPeek", <<e2.p, "{">>)
      b == parseBlockStatement(e3.p)
  IN  IF ~e1.ok THEN [n |-> TypedNil("WhileStatement"), p |-> e1.p]
      ELSE IF ~e2.ok THEN [n |-> TypedNil("WhileStatement"), p |-> e2.p]
      ELSE IF ~e3.ok THEN [n |-> TypedNil("WhileStatement"), p |-> e3.p]
      ELSE [ n |-> [kind |-> "WhileStatement", Condition |-> c.n, Body |-> b.n],
             p |-> b.p ]

parseForStatement(p) ==
  LET nilFor == TypedNil("ForStatement")
      e1 == Call("expectPeek", <<p, "(">>)
      p1 == Call("nextToken", <<e1.p>>)
      init == IF ~curTokenIs(p1, ";") THEN Call("parseStatement", <<p1>>)
              ELSE [n |-> Nil, p |-> p1]
      e2 == Call("expectPeek", <<init.p, ";">>)
      p2 == Call("nextToken", <<e2.p>>)
      cond == IF ~curTokenIs(p2, ";") THEN Call("parseExpression", <<p2, LOWEST>>)
              ELSE [n |-> Nil, p |-> p2]
      e3 == Call("expectPeek", <<cond.p, ";">>)
      p3 == Call("nextToken", <<e3.p>>)
      inc == IF ~curTokenIs(p3, ")") THEN Call("parseExpression", <<p3, LOWEST>>)
             ELSE [n |-> Nil, p |-> p3]
      e4 == Call("expectPeek", <<inc.p, ")">>)
      e5 == Call("expectPeek", <<e4.p, "{">>)
      b == parseBlockStatement(e5.p)
  IN  IF ~e1.ok THEN [n |-> nilFor, p |-> e1.p]
      ELSE IF ~e2.ok THEN [n |-> nilFor, p |-> e2.p]
      ELSE IF ~e3.ok THEN [n |-> nilFor, p |-> e3.p]
      ELSE IF ~e4.ok THEN [n |-> nilFor, p |-> e4.p]
      ELSE IF ~e5.ok THEN [n |-> nilFor, p |-> e5.p]
      ELSE [ n |-> [ kind |-> "ForStatement", Initializer |-> init.n,
                     Condition |-> cond.n, Increment |-> inc.n, Body |-> b.n ],
             p |-> b.p ]

parseBreakStatement(p) ==
  [n |-> [kind |-> "BreakStatement"], p |-> Call("SkipSemicolon", <<p>>)]

parseContinueStatement(p) ==
  [n |-> [kind |-> "ContinueStatement"], p |-> Call("SkipSemicolon", <<p>>)]

parseFunctionStatement(p) ==
  LET f == Call("parseFunctionLiteral", <<p>>)
  IN  [ n |-> [kind |-> "ExpressionStatement", Expression |-> f.n],
        p |-> Call("SkipSemicolon", <<f.p>>) ]

parseCaseStatement(p) ==
  LET v == Call("parseExpression", <<Call("nextToken", <<p>>), LOWEST>>)
      e1 == Call("expectPeek", <<v.p, ":">>)
      e2 == Call("expectPeek", <<e1.p, "{">>)
      b == parseBlockStatement(e2.p)
  IN  IF ~e1.ok THEN [n |-> TypedNil("CaseStatement"), p |-> e1.p]
      ELSE IF ~e2.ok THEN [n |-> TypedNil("CaseStatement"), p |-> e2.p]
      ELSE [ n |-> [kind |-> "CaseStatement", Value |-> v.n, Body |-> b.n],
             p |-> b.p ]

parseDefaultStatement(p) ==
  LET e1 == Call("expectPeek", <<p, ":">>)
      e2 == Call("expectPeek", <<e1.p, "{">>)
      b == parseBlockStatement(e2.p)
  IN  IF ~e1.ok THEN [n |-> TypedNil("DefaultStatement"), p |-> e1.p]
      ELSE IF ~e2.ok THEN [n |-> TypedNil("DefaultStatement"), p |-> e2.p]
      ELSE [n |-> [kind |-> "DefaultStatement", Body |-> b.n], p |-> b.p]

\* The loop of parseSwitchStatement over the case and default clauses.
RECURSIVE SwitchLoop(_, _)
SwitchLoop(p, stmt) ==
  IF curTokenIs(p, "}") \/ curTokenIs(p, "EOF") THEN [n |-> stmt, p |-> p]
  ELSE IF curTokenIs(p, "CASE")
  THEN LET c == parseCaseStatement(p)
       IN  SwitchLoop(Call("nextToken", <<c.p>>),
                      IF IsNil(c.n) THEN stmt
                      ELSE [stmt EXCEPT !.Cases = Append(@, c.n)])
  ELSE IF curTokenIs(p, "DEFAULT")
  THEN LET d == parseDefaultStatement(p)
       IN  SwitchLoop(Call("nextToken", <<d.p>>), [stmt EXCEPT !.Default = d.n])
  ELSE SwitchLoop(Call("nextToken", <<p>>), stmt)

parseSwitchStatement(p) ==
  LET nilSw == TypedNil("SwitchStatement")
      e1 == Call("expectPeek", <<p, "(">>)
      v == Call("parseExpression", <<Call("nextToken", <<e1.p>>), LOWEST>>)
      e2 == Call("expectPeek", <<v.p, ")">>)
      e3 == Call("expectPeek", <<e2.p, "{">>)
  IN  IF ~e1.ok THEN [n |-> nilSw, p |-> e1.p]
      ELSE IF ~e2.ok THEN [n |-> nilSw, p |-> e2.p]
      ELSE IF ~e3.ok THEN [n |-> nilSw, p |-> e3.p]
      ELSE SwitchLoop(Call("nextToken", <<e3.p>>),
                      [ kind |-> "SwitchStatement", Value |-> v.n,
                        Cases |-> <<>>, Default |-> Nil ])

parseCatchStatement(p) ==
  LET nilC == TypedNil("CatchStatement")
      e1 == Call("expectPeek", <<p, "(">>)
      e2 == Call("expectPeek", <<e1.p, "IDENT">>)
      param == Identifier(e2.p.curToken.Literal)
      e3 == Call("expectPeek", <<e2.p, ")">>)
      e4 == Call("expectPeek", <<e3.p, "{">>)
      b == parseBlockStatement(e4.p)
  IN  IF ~e1.ok THEN [n |-> nilC, p |-> e1.p]
      ELSE IF ~e2.ok THEN [n |-> nilC, p |-> e2.p]
      ELSE IF ~e3.ok THEN [n |-> nilC, p |-> e3.p]
      ELSE IF ~e4.ok THEN [n |-> nilC, p |-> e4.p]
      ELSE [ n |-> [kind |-> "CatchStatement", Parameter |-> param, Body |-> b.n],
             p |-> b.p ]

parseFinallyStatement(p) ==
  LET e1 == Call("expectPeek", <<p, "{">>)
      b == parseBlockStatement(e1.p)
  IN  IF ~e1.ok THEN [n |-> TypedNil("FinallyStatement"), p |-> e1.p]
      ELSE [n |-> [kind |-> "FinallyStatement", Body |-> b.n], p |-> b.p]

parseTryStatement(p) ==
  LET e1 == Call("expectPeek", <<p, "{">>)
      b == parseBlockStatement(e1.p)
      c == IF peekTokenIs(b.p, "CATCH") THEN parseCatchStatement(Call("nextToken", <<b.p>>))
           ELSE [n |-> Nil, p |-> b.p]
      f == IF peekTokenIs(c.p, "FINALLY")
           THEN parseFinallyStatement(Call("nextToken", <<c.p>>))
           ELSE [n |-> Nil, p |-> c.p]
  IN  IF ~e1.ok THEN [n |-> TypedNil("TryStatement"), p |-> e1.p]
      ELSE [ n |-> [ kind |-> "TryStatement", Body |-> b.n, Catch |-> c.n,
                     Finally |-> f.n ],
             p |-> f.p ]

parseThrowStatement(p) ==
  LET v == Call("parseExpression", <<Call("nextToken", <<p>>), LOWEST>>)
  IN  [n |-> [kind |-> "ThrowStatement", Value |-> v.n], p |-> Call("SkipSemicolon", <<v.p>>)]

parseImportStatement(p) ==
  LET e1 == Call("expectPeek", <<p, "STRING">>)
      path == [kind |-> "StringLiteral", Value |-> e1.p.curToken.Literal]
      e2 == Call("expectPeek", <<Call("nextToken", <<e1.p>>), "IDENT">>)
  IN  IF ~e1.ok THEN [n |-> TypedNil("ImportStatement"), p |-> e1.p]
      ELSE IF peekTokenIs(e1.p, "AS")
      THEN IF ~e2.ok THEN [n |-> TypedNil("ImportStatement"), p |-> e2.p]
           ELSE [ n |-> [ kind |-> "ImportStatement", Path |-> path,
                          Alias |-> Identifier(e2.p.curToken.Literal) ],
                  p |-> Call("SkipSemicolon", <<e2.p>>) ]
      ELSE [ n |-> [kind |-> "ImportStatement", Path |-> path, Alias |-> Nil],
             p |-> Call("SkipSemicolon", <<e1.p>>) ]

parseExportStatement(p) ==
  LET s == Call("parseStatement", <<Call("nextToken", <<p>>)>>)
  IN  [n |-> [kind |-> "ExportStatement", Value |-> s.n], p |-> s.p]

parseStatement(p) ==
  LET t == p.curToken.Type
  IN  CASE t = "LET" -> parseLetStatement(p)
        [] t = "CONST" -> parseConstStatement(p)
        [] t = "VAR" -> parseVarStatement(p)
        [] t = "RETURN" -> parseReturnStatement(p)
        [] t = "FUNCTION" -> parseFunctionStatement(p)
        [] t = "WHILE" -> parseWhileStatement(p)
        [] t = "FOR" -> parseForStatement(p)
        [] t = "BREAK" -> parseBreakStatement(p)
        [] t = "CONTINUE" -> parseContinueStatement(p)
        [] t = "SWITCH" -> parseSwitchStatement(p)
        [] t = "TRY" -> parseTryStatement(p)
        [] t = "THROW" -> parseThrowStatement(p)
        [] t = "IMPORT" -> parseImportStatement(p)
        [] t = "EXPORT" -> parseExportStatement(p)
        [] OTHER -> parseExpressionStatement(p)

\* The %T of a node in a message.
GoType(n) ==
  IF n.kind # "nil" THEN "*parser." \o n.kind
  ELSE IF "of" \in DOMAIN n THEN "*parser." \o n.of
  ELSE "<nil>"

parseIdentifier(p) == [n |-> Identifier(p.curToken.Literal), p |-> p]

parseIntegerLiteral(p) ==
  LET r == ParseInt(p.curToken.Literal)
  IN  IF r.err
      THEN [ n |-> Nil,
             p |-> AddError(p, "could not parse \"" \o p.curToken.Literal
                               \o "\" as integer") ]
      ELSE [n |-> [kind |-> "IntegerLiteral", Value |-> r.value], p |-> p]

parseFloatLiteral(p) ==
  [ n |-> [kind |-> "FloatLiteral", Value |-> ParseFloat(p.curToken.Literal)],
    p |-> p ]

parseStringLiteral(p) ==
  [n |-> [kind |-> "StringLiteral", Value |-> p.curToken.Literal], p |-> p]

parseBooleanLiteral(p) ==
  [n |-> [kind |-> "BooleanLiteral", Value |-> curTokenIs(p, "TRUE")], p |-> p]

parseNullLiteral(p) == [n |-> [kind |-> "NullLiteral"], p |-> p]

parsePrefixExpression(p) ==
  LET r == Call("parseExpression", <<Call("nextToken", <<p>>), PREFIX>>)
  IN  [ n |-> [ kind |-> "PrefixExpression", Operator |-> p.curToken.Literal,
                Right |-> r.n ],
        p |-> r.p ]

parseGroupedExpression(p) ==
  LET r == Call("parseExpression", <<Call("nextToken", <<p>>), LOWEST>>)
      e == Call("expectPeek", <<r.p, ")">>)
  IN  IF ~e.ok THEN [n |-> Nil, p |-> e.p] ELSE [n |-> r.n, p |-> e.p]

parseIfExpression(p) ==
  LET e1 == Call("expectPeek", <<p, "(">>)
      c == Call("parseExpression", <<Call("nextToken", <<e1.p>>), LOWEST>>)
      e2 == Call("expectPeek", <<c.p, ")">>)
      e3 == Call("expectPeek", <<e2.p, "{">>)
      cons == parseBlockStatement(e3.p)
      e4 == Call("expectPeek", <<Call("nextToken", <<cons.p>>), "{">>)
      alt == parseBlockStatement(e4.p)
  IN  IF ~e1.ok THEN [n |-> Nil, p |-> e1.p]
      ELSE IF ~e2.ok THEN [n |-> Nil, p |-> e2.p]
      ELSE IF ~e3.ok THEN [n |-> Nil, p |-> e3.p]
      ELSE IF peekTokenIs(cons.p, "ELSE")
      THEN IF ~e4.ok THEN [n |-> Nil, p |-> e4.p]
           ELSE [ n |-> [ kind |-> "IfExpression", Condition |-> c.n,
                          Consequence |-> cons.n, Alternative |-> alt.n ],
                  p |-> alt.p ]
      ELSE [ n |-> [ kind |-> "IfExpression", Condition |-> c.n,
                     Consequence |-> cons.n, Alternative |-> Nil ],
             p |-> cons.p ]

\* The loop of parseFunctionParameters over ", name".
RECURSIVE ParamLoop(_, _)
ParamLoop(p, identifiers) ==
  IF peekTokenIs(p, ",")
  THEN LET p2 == Call("nextToken", <<Call("nextToken", <<p>>)>>)
       IN  ParamLoop(p2, Append(identifiers, Identifier(p2.curToken.Literal)))
  ELSE [n |-> identifiers, p |-> p]

\* Returns the identifiers (n), whether the result is the nil slice of the
\* error return (isnil), and the parser.
parseFunctionParameters(p) ==
  LET p1 == Call("nextToken", <<p>>)
      r == ParamLoop(p1, <<Identifier(p1.curToken.Literal)>>)
      e == Call("expectPeek", <<r.p, ")">>)
  IN  IF peekTokenIs(p, ")") THEN [n |-> <<>>, isnil |-> FALSE, p |-> p1]
      ELSE IF ~e.ok THEN [n |-> <<>>, isnil |-> TRUE, p |-> e.p]
      ELSE [n |-> r.n, isnil |-> FALSE, p |-> e.p]

parseFunctionLiteral(p) ==
  LET e1 == Call("expectPeek", <<p, "(">>)
      params == parseFunctionParameters(e1.p)
      e2 == Call("expectPeek", <<params.p, "{">>)
      b == parseBlockStatement(e2.p)
  IN  IF ~e1.ok THEN [n |-> Nil, p |-> e1.p]
      ELSE IF ~e2.ok THEN [n |-> Nil, p |-> e2.p]
      ELSE [ n |-> [ kind |-> "FunctionLiteral", Parameters |-> params.n,
                     Body |-> b.n ],
             p |-> b.p ]

\* The loop of parseExpressionList over ", expression".
RECURSIVE ListLoop(_, _)
ListLoop(p, args) ==
  IF peekTokenIs(p, ",")
  THEN LET r == Call("parseExpression", <<Call("nextToken", <<Call("nextToken", <<p>>)>>), LOWEST>>)
       IN  ListLoop(r.p, Append(args, r.n))
  ELSE [n |-> args, p |-> p]

\* Returns the expressions (n; empty for the nil slice of the error return)
\* and the parser.
parseExpressionList(p, end) ==
  LET first == Call("parseExpression", <<Call("nextToken", <<p>>), LOWEST>>)
      r == ListLoop(first.p, <<first.n>>)
      e == Call("expectPeek", <<r.p, end>>)
  IN  IF peekTokenIs(p, end) THEN [n |-> <<>>, p |-> Call("nextToken", <<p>>)]
      ELSE IF ~e.ok THEN [n |-> <<>>, p |-> e.p]
      ELSE [n |-> r.n, p |-> e.p]

parseArrayLiteral(p) ==
  LET r == parseExpressionList(p, "]")
  IN  [n |-> [kind |-> "ArrayLiteral", Elements |-> r.n], p |-> r.p]

\* obj.Pairs[key] = value on the Go map, whose keys are node pointers: a
\* new entry, except that a second nil key replaces the first.  The map is
\* kept as the sequence of its entries in source order.
PutPair(pairs, key, value) ==
  IF IsNil(key) /\ \E i \in 1..Len(pairs) : IsNil(pairs[i].key)
  THEN [ i \in 1..Len(pairs) |->
           IF IsNil(pairs[i].key) THEN [key |-> key, value |-> value]
           ELSE pairs[i] ]
  ELSE Append(pairs, [key |-> key, value |-> value])

\* The loop of parseObjectLiteral: the pairs (n), whether a "return nil"
\* was taken (failed), and the parser.
RECURSIVE ObjectLoop(_, _)
ObjectLoop(p, pairs) ==
  IF peekTokenIs(p, "}") \/ peekTokenIs(p, "EOF")
  THEN [n |-> pairs, failed |-> FALSE, p |-> p]
  ELSE LET k == Call("parseExpression", <<Call("nextToken", <<p>>), LOWEST>>)
           e1 == Call("expectPeek", <<k.p, ":">>)
           v == Call("parseExpression", <<Call("nextToken", <<e1.p>>), LOWEST>>)
           e2 == Call("expectPeek", <<v.p, ",">>)
       IN  IF ~e1.ok THEN [n |-> pairs, failed |-> TRUE, p |-> e1.p]
           ELSE IF peekTokenIs(v.p, "}")
           THEN ObjectLoop(v.p, PutPair(pairs, k.n, v.n))
           ELSE IF ~e2.ok THEN [n |-> pairs, failed |-> TRUE, p |-> e2.p]
           ELSE ObjectLoop(e2.p, PutPair(pairs, k.n, v.n))

parseObjectLiteral(p) ==
  LET r == ObjectLoop(p, <<>>)
      e == Call("expectPeek", <<r.p, "}">>)
  IN  IF r.failed THEN [n |-> Nil, p |-> r.p]
      ELSE IF ~e.ok THEN [n |-> Nil, p |-> e.p]
      ELSE [n |-> [kind |-> "ObjectLiteral", Pairs |-> r.n], p |-> e.p]

parseInfixExpression(p, left) ==
  LET r == Call("parseExpression", <<Call("nextToken", <<p>>), curPrecedence(p)>>)
  IN  [ n |-> [ kind |-> "InfixExpression", Left |-> left,
                Operator |-> p.curToken.Literal, Right |-> r.n ],
        p |-> r.p ]

parseAssignmentExpression(p, left) ==
  LET r == Call("parseExpression", <<Call("nextToken", <<p>>), curPrecedence(p)>>)
  IN  IF left.kind # "Identifier"
      THEN [n |-> Nil, p |-> AddError(p, "expected identifier, got " \o GoType(left))]
      ELSE [ n |-> [ kind |-> "AssignmentExpression", Name |-> left,
                     Operator |-> p.curToken.Literal, Value |-> r.n ],
             p |-> r.p ]

parseCallExpression(p, fn) ==
  LET r == parseExpressionList(p, ")")
  IN  [ n |-> [kind |-> "CallExpression", Function |-> fn, Arguments |-> r.n],
        p |-> r.p ]

parseIndexExpression(p, left) ==
  LET r == Call("parseExpression", <<Call("nextToken", <<p>>), LOWEST>>)
      e == Call("expectPeek", <<r.p, "]">>)
  IN  IF ~e.ok THEN [n |-> Nil, p |-> e.p]
      ELSE [ n |-> [kind |-> "IndexExpression", Left |-> left, Index |-> r.n],
             p |-> e.p ]

parseDotExpression(p, left) ==
  LET e == Call("expectPeek", <<p, "IDENT">>)
  IN  IF ~e.ok THEN [n |-> Nil, p |-> e.p]
      ELSE [ n |-> [ kind |-> "DotExpression", Left |-> left,
                     Property |-> Identifier(e.p.curToken.Literal) ],
             p |-> e.p ]

parseTernaryExpression(p, condition) ==
  LET c == Call("parseExpression", <<Call("nextToken", <<p>>), LOWEST>>)
      e == Call("expectPeek", <<c.p, ":">>)
      a == Call("parseExpression", <<Call("nextToken", <<e.p>>), LOWEST>>)
  IN  IF ~e.ok THEN [n |-> Nil, p |-> e.p]
      ELSE [ n |-> [ kind |-> "TernaryExpression", Condition |-> condition,
                     Consequence |-> c.n, Alternative |-> a.n ],
             p |-> a.p ]

\* prefix(): the call of a registered prefix parse function.
CallPrefix(fn, p) ==
  CASE fn = "parseIdentifier" -> parseIdentifier(p)
    [] fn = "parseIntegerLiteral" -> parseIntegerLiteral(p)
    [] fn = "parseFloatLiteral" -> parseFloatLiteral(p)
    [] fn = "parseStringLiteral" -> parseStringLiteral(p)
    [] fn = "parseBooleanLiteral" -> parseBooleanLiteral(p)
    [] fn = "parseNullLiteral" -> parseNullLiteral(p)
    [] fn = "parsePrefixExpression" -> parsePrefixExpression(p)
    [] fn = "parseGroupedExpression" -> parseGroupedExpression(p)
    [] fn = "parseIfExpression" -> parseIfExpression(p)
    [] fn = "parseFunctionLiteral" -> Call("parseFunctionLiteral", <<p>>)
    [] fn = "parseArrayLiteral" -> parseArrayLiteral(p)
    [] fn = "parseObjectLiteral" -> parseObjectLiteral(p)

\* infix(leftExp): the call of a registered infix parse function.
CallInfix(fn, p, left) ==
  CASE fn = "parseInfixExpression" -> parseInfixExpression(p, left)
    [] fn = "parseAssignmentExpression" -> parseAssignmentExpression(p, left)
    [] fn = "parseCallExpression" -> parseCallExpression(p, left)
    [] fn = "parseIndexExpression" -> parseIndexExpression(p, left)
    [] fn = "parseDotExpression" -> parseDotExpression(p, left)
    [] fn = "parseTernaryExpression" -> parseTernaryExpression(p, left)

\* The loop of parseExpression over the infix operators that bind tighter
\* than precedence.
RECURSIVE InfixLoop(_, _, _)
InfixLoop(p, precedence, leftExp) ==
  IF ~peekTokenIs(p, ";") /\ precedence < peekPrecedence(p)
  THEN LET infix == infixParseFns(p.peekToken.Type)
           r == CallInfix(infix, Call("nextToken", <<p>>), leftExp)
       IN  IF infix = "nil" THEN [n |-> leftExp, p |-> p]
           ELSE InfixLoop(r.p, precedence, r.n)
  ELSE [n |-> leftExp, p |-> p]

parseExpression(p, precedence) ==
  LET prefix == prefixParseFns(p.curToken.Type)
      left == CallPrefix(prefix, p)
  IN  IF prefix = "nil"
      THEN [n |-> Nil, p |-> noPrefixParseFnError(p, p.curToken.Type)]
      ELSE InfixLoop(left.p, precedence, left.n)

\* The loop of ParseProgram.
RECURSIVE ProgramLoop(_, _)
ProgramLoop(p, stmts) ==
  IF curTokenIs(p, "EOF") THEN [n |-> stmts, p |-> p]
  ELSE LET s == Call("parseStatement", <<p>>)
       IN  ProgramLoop(Call("nextToken", <<s.p>>), Append(stmts, s.n))

\* Returns the Program and the parser, whose errors are Errors().
ParseProgram(p) ==
  LET r == ProgramLoop(p, <<>>)
  IN  [n |-> [kind |-> "Program", Statements |-> r.n], p |-> r.p]

Errors(p) == p.errors

\* lexer.NewLexer, parser.New and ParseProgram on a source text, as every
\* caller chains them.
Parse(input) == ParseProgram(New(NewLexer(input)))

(***************************************************************************)
(* evaluator: the objects.  A Go nil Object is NilObj.  An object that Go   *)
(* compares by pointer and that is not one of the singletons carries the    *)
(* address it was allocated at (id).  A run-time panic of the host is the   *)
(* outcome Panic, which every caller hands on; an evaluation that uses up   *)
(* the model's step budget is the outcome Diverged.                         *)
(***************************************************************************)

NilObj == [type |-> "nil"]
NULL == [type |-> "NULL"]
TRUE_ == [type |-> "BOOLEAN", Value |-> TRUE]
FALSE_ == [type |-> "BOOLEAN", Value |-> FALSE]
Integer(v) == [type |-> "INTEGER", Value |-> v]
Float(v) == [type |-> "FLOAT", Value |-> v]
String(v) == [type |-> "STRING", Value |-> v]
Error(msg) == [type |-> "ERROR", Message |-> msg]
Builtin(name) == [type |-> "BUILTIN", Name |-> name]
Panic(msg) == [type |-> "PANIC", Message |-> msg]
Diverged == [type |-> "DIVERGED"]

Aborted(obj) == obj.type \in {"PANIC", "DIVERGED"}

\* obj.Type() on a nil interface.
NilDeref == Panic("invalid memory address or nil pointer dereference")

\* The %T of an object in a message.
GoObjType(obj) ==
  CASE obj.type = "nil" -> "<nil>"
    [] obj.type = "INTEGER" -> "*evaluator.Integer"
    [] obj.type = "FLOAT" -> "*evaluator.Float"
    [] obj.type = "STRING" -> "*evaluator.String"
    [] obj.type = "BOOLEAN" -> "*evaluator.Boolean"
    [] obj.type = "NULL" -> "*evaluator.Null"
    [] obj.type = "ARRAY" -> "*evaluator.Array"
    [] obj.type = "HASH" -> "*evaluator.Hash"
    [] obj.type = "FUNCTION" -> "*evaluator.Function"
    [] obj.type = "BUILTIN" -> "*evaluator.Builtin"
    [] obj.type = "RETURN_VALUE" -> "*evaluator.ReturnValue"
    [] obj.type = "BREAK" -> "*evaluator.Break"
    [] obj.type = "CONTINUE" -> "*evaluator.Continue"
    [] obj.type = "ERROR" -> "*evaluator.Error"

newError(msg) == Error(msg)

isError(obj) == IF obj.type # "nil" THEN obj.type = "ERROR" ELSE FALSE

nativeBoolToPyMonkeyBool(input) == IF input THEN TRUE_ ELSE FALSE_

\* left == right on two Objects: the same pointer.
SameObject(left, right) ==
  /\ left.type = right.type
  /\ CASE left.type \in {"nil", "NULL"} -> TRUE
       [] left.type = "BOOLEAN" -> left.Value = right.Value
       [] left.type = "BUILTIN" -> left.Name = right.Name
       [] left.type \in {"ARRAY", "HASH", "FUNCTION", "RETURN_VALUE", "BREAK",
                         "CONTINUE"} -> left.id = right.id
       [] OTHER -> FALSE

\* The hash key of a Hashable (Integer, String, Boolean): the type and the
\* 64-bit value, which for a String stands for the hash of its text.
HashKey(obj) ==
  CASE obj.type = "INTEGER" -> [Type |-> "INTEGER", i |-> obj.Value]
    [] obj.type = "BOOLEAN" -> [Type |-> "BOOLEAN", b |-> obj.Value]
    [] obj.type = "STRING" -> [Type |-> "STRING", s |-> obj.Value]

Hashable(obj) == obj.type \in {"INTEGER", "STRING", "BOOLEAN"}

\* The names of the builtins map.
builtins == {"print", "len", "type"}

(***************************************************************************)
(* evaluator/environment.go: the heap h holds the environments (h.envs; an  *)
(* *Environment is an index, 0 is nil), the next free address (h.nextId),   *)
(* the step budget left (h.fuel), where the iteration of a Go map starts    *)
(* (h.iter) and what was written to standard output (h.out).                *)
(***************************************************************************)

NewHeap(fuel, iter) ==
  [envs |-> <<>>, nextId |-> 1, fuel |-> fuel, iter |-> iter, out |-> <<>>]

\* Returns the new environment (e) and the heap.
NewEnvironment(h) ==
  [ e |-> Len(h.envs) + 1,
    h |-> [h EXCEPT !.envs = Append(@, [store |-> <<>>, outer |-> 0])] ]

NewEnclosedEnvironment(h, outer) ==
  LET r == NewEnvironment(h)
  IN  [e |-> r.e, h |-> [r.h EXCEPT !.envs[r.e].outer = outer]]

\* The store is the sequence of its bindings, in the order the names were
\* first set.
Bound(store, name) == \E i \in 1..Len(store) : store[i].name = name

Lookup(store, name) ==
  store[CHOOSE i \in 1..Len(store) : store[i].name = name].val

\* Returns the value and ok.
RECURSIVE Get(_, _, _)
Get(h, e, name) ==
  LET env == h.envs[e]
  IN  IF Bound(env.store, name)
      THEN [value |-> Lookup(env.store, name), ok |-> TRUE]
      ELSE IF env.outer # 0 THEN Get(h, env.outer, name)
      ELSE [value |-> NilObj, ok |-> FALSE]

StorePut(store, name, val) ==
  IF Bound(store, name)
  THEN [ i \in 1..Len(store) |->
           IF store[i].name = name THEN [name |-> name, val |-> val]
           ELSE store[i] ]
  ELSE Append(store, [name |-> name, val |-> val])

\* Set that looks for the name along the chain, as Get does, and writes the
\* environment that binds it.
RECURSIVE SetWhereBound(_, _, _, _)
SetWhereBound(h, e, name, val) ==
  IF ~Bound(h.envs[e].store, name) /\ h.envs[e].outer # 0
       /\ Get(h, h.envs[e].outer, name).ok
  THEN SetWhereBound(h, h.envs[e].outer, name, val)
  ELSE [h EXCEPT !.envs[e].store = StorePut(@, name, val)]

\* Returns the heap.
Set(h, e, name, val) ==
  [h EXCEPT !.envs[e].store = StorePut(@, name, val)]

(***************************************************************************)
(* evaluator/evaluator.go: the operators.                                   *)
(***************************************************************************)

\* The switch compares right with the singletons TRUE, FALSE and NULL;
\* every Boolean is one of the two singletons.
evalBangOperatorExpression(right) ==
  CASE right.type = "BOOLEAN" /\ right.Value -> FALSE_
    [] right.type = "BOOLEAN" /\ ~right.Value -> TRUE_
    [] right.type = "NULL" -> TRUE_
    [] OTHER -> FALSE_

evalMinusPrefixOperatorExpression(right) ==
  CASE right.type = "INTEGER" -> Integer(-right.Value)
    [] right.type = "FLOAT" -> Float(Rat(-right.Value.num, right.Value.den))
    [] right.type = "nil" -> NilDeref
    [] OTHER -> newError("unknown operator: -" \o right.type)

evalPrefixExpression(operator, right) ==
  CASE operator = "!" -> evalBangOperatorExpression(right)
    [] operator = "-" -> evalMinusPrefixOperatorExpression(right)
    [] right.type = "nil" -> NilDeref
    [] OTHER -> newError("unknown operator: " \o operator \o right.type)

\* leftVal / rightVal on int64: the quotient truncated toward zero.
Quot(a, b) ==
  IF (a >= 0) = (b > 0) THEN Abs(a) \div Abs(b) ELSE -(Abs(a) \div Abs(b))

\* evalIntegerInfixExpression without the test of the divisor: Go's integer
\* division by zero panics.
evalIntegerInfixExpressionUnchecked(operator, left, right) ==
  LET leftVal == left.Value
      rightVal == right.Value
  IN  CASE operator = "+" -> Integer(leftVal + rightVal)
        [] operator = "-" -> Integer(leftVal - rightVal)
        [] operator = "*" -> Integer(leftVal * rightVal)
        [] operator = "/" ->
             IF rightVal = 0
             THEN Panic("runtime error: integer divide by zero")
             ELSE Integer(Quot(leftVal, rightVal))
        [] operator = "<" -> nativeBoolToPyMonkeyBool(leftVal < rightVal)
        [] operator = ">" -> nativeBoolToPyMonkeyBool(leftVal > rightVal)
        [] operator = "==" -> nativeBoolToPyMonkeyBool(leftVal = rightVal)
        [] operator = "!=" -> nativeBoolToPyMonkeyBool(leftVal # rightVal)
        [] OTHER -> newError("unknown operator: " \o operator)

evalIntegerInfixExpression(operator, left, right) ==
  LET leftVal == left.Value
      rightVal == right.Value
  IN  CASE operator = "+" -> Integer(leftVal + rightVal)
        [] operator = "-" -> Integer(leftVal - rightVal)
        [] operator = "*" -> Integer(leftVal * rightVal)
        [] operator = "/" ->
             IF rightVal = 0 THEN newError("division by zero")
             ELSE Integer(Quot(leftVal, rightVal))
        [] operator = "<" -> nativeBoolToPyMonkeyBool(leftVal < rightVal)
        [] operator = ">" -> nativeBoolToPyMonkeyBool(leftVal > rightVal)
        [] operator = "==" -> nativeBoolToPyMonkeyBool(leftVal = rightVal)
        [] operator = "!=" -> nativeBoolToPyMonkeyBool(leftVal # rightVal)
        [] OTHER -> newError("unknown operator: " \o operator)

\* float64(v) of an int64.
ToFloat(v) == [num |-> v, den |-> 1]

RatLess(a, b) == a.num * b.den < b.num * a.den

evalFloatInfixExpression(operator, left, right) ==
  LET leftVal == IF left.type = "FLOAT" THEN left.Value ELSE ToFloat(left.Value)
      rightVal == IF right.type = "FLOAT" THEN right.Value
                  ELSE ToFloat(right.Value)
  IN  IF left.type \notin {"FLOAT", "INTEGER"}
      THEN Panic("interface conversion: evaluator.Object is "
                 \o GoObjType(left) \o ", not *evaluator.Integer")
      ELSE IF right.type = "nil" THEN NilDeref
      ELSE IF right.type \notin {"FLOAT", "INTEGER"}
      THEN Panic("interface conversion: evaluator.Object is "
                 \o GoObjType(right) \o ", not *evaluator.Integer")
      ELSE CASE operator = "+" ->
                  Float(Rat(leftVal.num * rightVal.den + rightVal.num * leftVal.den,
                            leftVal.den * rightVal.den))
             [] operator = "-" ->
                  Float(Rat(leftVal.num * rightVal.den - rightVal.num * leftVal.den,
                            leftVal.den * rightVal.den))
             [] operator = "*" ->
                  Float(Rat(leftVal.num * rightVal.num, leftVal.den * rightVal.den))
             [] operator = "/" ->
                  IF rightVal.num = 0 THEN newError("division by zero")
                  ELSE Float(Rat(leftVal.num * rightVal.den,
                                 leftVal.den * rightVal.num))
             [] operator = "<" -> nativeBoolToPyMonkeyBool(RatLess(leftVal, rightVal))
             [] operator = ">" -> nativeBoolToPyMonkeyBool(RatLess(rightVal, leftVal))
             [] operator = "==" -> nativeBoolToPyMonkeyBool(leftVal = rightVal)
             [] operator = "!=" -> nativeBoolToPyMonkeyBool(leftVal # rightVal)
             [] OTHER -> newError("unknown operator: " \o operator)

evalStringInfixExpression(operator, left, right) ==
  LET leftVal == left.Value
      rightVal == right.Value
  IN  CASE operator = "+" -> String(leftVal \o rightVal)
        [] operator = "==" -> nativeBoolToPyMonkeyBool(leftVal = rightVal)
        [] operator = "!=" -> nativeBoolToPyMonkeyBool(leftVal # rightVal)
        [] OTHER -> newError("unknown operator: " \o operator)

evalBooleanInfixExpression(operator, left, right) ==
  LET leftVal == left.Value
      rightVal == right.Value
  IN  CASE operator = "==" -> nativeBoolToPyMonkeyBool(leftVal = rightVal)
        [] operator = "!=" -> nativeBoolToPyMonkeyBool(leftVal # rightVal)
        [] operator = "&&" -> nativeBoolToPyMonkeyBool(leftVal /\ rightVal)
        [] operator = "||" -> nativeBoolToPyMonkeyBool(leftVal \/ rightVal)
        [] OTHER -> newError("unknown operator: " \o operator)

isTruthy(obj) ==
  CASE obj.type = "NULL" -> FALSE
    [] obj.type = "BOOLEAN" /\ obj.Value -> TRUE
    [] obj.type = "BOOLEAN" /\ ~obj.Value -> FALSE
    [] OTHER -> TRUE

evalLogicalAndExpression(left, right) ==
  IF ~isTruthy(left) THEN FALSE_ ELSE nativeBoolToPyMonkeyBool(isTruthy(right))

evalLogicalOrExpression(left, right) ==
  IF isTruthy(left) THEN TRUE_ ELSE nativeBoolToPyMonkeyBool(isTruthy(right))

evalInfixExpression(operator, left, right) ==
  CASE left.type = "nil" \/ right.type = "nil" -> NilDeref
    [] left.type = "INTEGER" /\ right.type = "INTEGER" ->
         evalIntegerInfixExpression(operator, left, right)
    [] left.type = "FLOAT" \/ right.type = "FLOAT" ->
         evalFloatInfixExpression(operator, left, right)
    [] left.type = "STRING" /\ right.type = "STRING" ->
         evalStringInfixExpression(operator, left, right)
    [] left.type = "BOOLEAN" /\ right.type = "BOOLEAN" ->
         evalBooleanInfixExpression(operator, left, right)
    [] operator = "==" -> nativeBoolToPyMonkeyBool(SameObject(left, right))
    [] operator = "!=" -> nativeBoolToPyMonkeyBool(~SameObject(left, right))
    [] operator = "&&" -> evalLogicalAndExpression(left, right)
    [] operator = "||" -> evalLogicalOrExpression(left, right)
    [] left.type # right.type ->
         newError("type mismatch: " \o left.type \o " " \o operator \o " "
                  \o right.type)
    [] OTHER ->
         newError("unknown operator: " \o left.type \o " " \o operator \o " "
                  \o right.type)

\* evalArrayIndexExpression that reports an index out of range as an Error.
evalArrayIndexExpressionStrict(array, index) ==
  LET idx == index.Value
      max == Len(array.Elements) - 1
  IN  IF idx < 0 \/ idx > max THEN newError("index out of range")
      ELSE array.Elements[idx + 1]

evalArrayIndexExpression(array, index) ==
  LET idx == index.Value
      max == Len(array.Elements) - 1
  IN  IF idx < 0 \/ idx > max THEN NULL ELSE array.Elements[idx + 1]

\* hashObject.Pairs[key]: the pairs are kept in the order of their slots.
HashHas(pairs, hk) == \E i \in 1..Len(pairs) : pairs[i].hk = hk

HashAt(pairs, hk) == pairs[CHOOSE i \in 1..Len(pairs) : pairs[i].hk = hk]

evalHashIndexExpression(hash, index) ==
  IF ~Hashable(index)
  THEN newError("unusable as hash key: " \o GoObjType(index))
  ELSE IF ~HashHas(hash.Pairs, HashKey(index)) THEN NULL
  ELSE HashAt(hash.Pairs, HashKey(index)).Value

evalIndexExpression(left, index) ==
  CASE left.type = "nil" -> NilDeref
    [] left.type = "ARRAY" /\ index.type = "nil" -> NilDeref
    [] left.type = "ARRAY" /\ index.type = "INTEGER" ->
         evalArrayIndexExpression(left, index)
    [] left.type = "HASH" -> evalHashIndexExpression(left, index)
    [] OTHER -> newError("index operator not supported: " \o left.type)

\* unwrapReturnValue that hands the ReturnValue to the caller as it is.
unwrapReturnValueKept(obj) == obj

unwrapReturnValue(obj) ==
  IF obj.type = "RETURN_VALUE" THEN obj.Value ELSE obj

(***************************************************************************)
(* evaluator/evaluator.go: Eval and the functions that call it.  Each takes *)
(* the heap and returns the Object (o) and the heap (h).                    *)
(***************************************************************************)

\* What a write to standard output leaves there: what was written (kind)
\* and the value or the messages written (what).
Written(kind, what) == [kind |-> kind, what |-> what]

\* fmt.Print and io.WriteString on os.Stdout.
Write(h, kind, what) == [h EXCEPT !.out = Append(@, Written(kind, what))]

\* The builtins of evaluator/builtins.go, applied to the arguments: print
\* writes its arguments and returns NULL, len returns the length of a
\* String, Array or Hash, type returns the name of the type of its argument.
applyBuiltin(name, args, h) ==
  CASE name = "print" -> [o |-> NULL, h |-> Write(h, "print", args)]
    [] name = "type" ->
         [ o |-> IF Len(args) # 1 THEN newError("wrong number of arguments")
                 ELSE String(args[1].type),
           h |-> h ]
    [] name = "len" ->
         [ o |-> IF Len(args) # 1 THEN newError("wrong number of arguments")
                 ELSE IF args[1].type = "STRING" THEN Integer(Len(args[1].Value))
                 ELSE IF args[1].type = "ARRAY" THEN Integer(Len(args[1].Elements))
                 ELSE IF args[1].type = "HASH" THEN Integer(Len(args[1].Pairs))
                 ELSE newError("argument to len not supported"),
           h |-> h ]

\* Returns the heap with one address taken; the address is h.nextId.
Alloc(h) == [h EXCEPT !.nextId = @ + 1]

\* One loop iteration or one call charged to the step budget.
Tick(h) == [h EXCEPT !.fuel = @ - 1]

\* The typed nil pointers that Eval dereferences.
DerefsNil(node) ==
  /\ "of" \in DOMAIN node
  /\ node.of \in { "LetStatement", "ConstStatement", "VarStatement",
                   "WhileStatement", "ForStatement" }

\* pairs[hashed] = HashPair{Key: key, Value: value}
HashPut(pairs, key, value) ==
  LET entry == [hk |-> HashKey(key), Key |-> key, Value |-> value]
  IN  IF HashHas(pairs, entry.hk)
      THEN [i \in 1..Len(pairs) |-> IF pairs[i].hk = entry.hk THEN entry ELSE pairs[i]]
      ELSE Append(pairs, entry)

\* The order in which "range node.Pairs" visits the n entries of a map: Go
\* starts at an offset of its choosing and wraps around.
RangeOrder(n, iter) == [i \in 1..n |-> ((i - 1 + iter) % n) + 1]

\* The default case of Eval returning NULL.
unknownNodeTypeIsNull(node) == NULL

\* The default case of Eval's type switch.
unknownNodeType(node) == newError("unknown node type: " \o GoType(node))


\* The loop of evalProgram from statement i on; result is the value of the
\* statement before.
RECURSIVE ProgramStatements(_, _, _, _, _)
ProgramStatements(stmts, i, env, h, result) ==
  IF i > Len(stmts) THEN [o |-> result, h |-> h]
  ELSE LET r == Call("Eval", <<stmts[i], env, h>>)
       IN  IF Aborted(r.o) THEN r
           ELSE IF r.o.type = "RETURN_VALUE" THEN [o |-> r.o.Value, h |-> r.h]
           ELSE IF r.o.type = "ERROR" THEN r
           ELSE ProgramStatements(stmts, i + 1, env, r.h, r.o)

evalProgram(stmts, env, h) == ProgramStatements(stmts, 1, env, h, NilObj)

\* The loop of evalBlockStatement from statement i on.
RECURSIVE BlockStatements(_, _, _, _, _)
BlockStatements(stmts, i, env, h, result) ==
  IF i > Len(stmts) THEN [o |-> result, h |-> h]
  ELSE LET r == Call("Eval", <<stmts[i], env, h>>)
       IN  IF Aborted(r.o) THEN r
           ELSE IF r.o.type \in {"RETURN_VALUE", "ERROR", "BREAK", "CONTINUE"}
           THEN r
           ELSE BlockStatements(stmts, i + 1, env, r.h, r.o)

\* evalBlockStatement with the loop of evalProgram: a ReturnValue is
\* unwrapped, and Break and Continue do not end the block.
evalBlockStatementAsProgram(block, env, h) ==
  ProgramStatements(block.Statements, 1, env, h, NilObj)

evalBlockStatement(block, env, h) ==
  BlockStatements(block.Statements, 1, env, h, NilObj)

evalIfExpression(ie, env, h) ==
  LET c == Call("Eval", <<ie.Condition, env, h>>)
  IN  IF Aborted(c.o) \/ isError(c.o) THEN c
      ELSE IF isTruthy(c.o) THEN Call("Eval", <<ie.Consequence, env, c.h>>)
      ELSE IF ~IsNil(ie.Alternative) THEN Call("Eval", <<ie.Alternative, env, c.h>>)
      ELSE [o |-> NULL, h |-> c.h]

evalIdentifier(node, env, h) ==
  LET g == Get(h, env, node.Value)
  IN  IF node.Value \in builtins THEN Builtin(node.Value)
      ELSE IF ~g.ok THEN newError("identifier not found: " \o node.Value)
      ELSE g.value

\* The loop of evalExpressions from expression i on.  Returns the objects
\* (objs) and the heap; an aborted evaluation is returned like an Error.
RECURSIVE Expressions(_, _, _, _, _)
Expressions(exps, i, env, h, result) ==
  IF i > Len(exps) THEN [objs |-> result, h |-> h]
  ELSE LET r == Call("Eval", <<exps[i], env, h>>)
       IN  IF Aborted(r.o) \/ isError(r.o) THEN [objs |-> <<r.o>>, h |-> r.h]
           ELSE Expressions(exps, i + 1, env, r.h, Append(result, r.o))

\* evalExpressions that goes on to the next expression after an Error and
\* returns every value.
RECURSIVE ExpressionsAll(_, _, _, _, _)
ExpressionsAll(exps, i, env, h, result) ==
  IF i > Len(exps) THEN [objs |-> result, h |-> h]
  ELSE LET r == Call("Eval", <<exps[i], env, h>>)
       IN  IF Aborted(r.o) THEN [objs |-> <<r.o>>, h |-> r.h]
           ELSE ExpressionsAll(exps, i + 1, env, r.h, Append(result, r.o))

evalExpressionsAll(exps, env, h) == ExpressionsAll(exps, 1, env, h, <<>>)

evalExpressions(exps, env, h) == Expressions(exps, 1, env, h, <<>>)

\* The loop of evalObjectLiteral over the entries order[i], order[i+1], ...
RECURSIVE ObjectPairs(_, _, _, _, _, _)
ObjectPairs(node, order, i, env, h, pairs) ==
  IF i > Len(order)
  THEN [ o |-> [type |-> "HASH", Pairs |-> pairs, id |-> h.nextId],
         h |-> Alloc(h) ]
  ELSE LET entry == node.Pairs[order[i]]
           key == Call("Eval", <<entry.key, env, h>>)
           value == Call("Eval", <<entry.value, env, key.h>>)
       IN  IF Aborted(key.o) \/ isError(key.o) THEN key
           ELSE IF ~Hashable(key.o)
           THEN [ o |-> newError("unusable as hash key: " \o GoObjType(key.o)),
                  h |-> key.h ]
           ELSE IF Aborted(value.o) \/ isError(value.o) THEN value
           ELSE ObjectPairs(node, order, i + 1, env, value.h,
                            HashPut(pairs, key.o, value.o))

evalObjectLiteral(node, env, h) ==
  ObjectPairs(node, RangeOrder(Len(node.Pairs), h.iter), 1, env, h, <<>>)

\* The four compound assignments: operator is the infix operator applied.
CompoundAssign(ae, operator, env, val, h) ==
  LET cur == Get(h, env, ae.Name.Value)
      result == evalInfixExpression(operator, cur.value, val)
  IN  IF ~cur.ok
      THEN [o |-> newError("identifier not found: " \o ae.Name.Value), h |-> h]
      ELSE IF Aborted(result) \/ isError(result) THEN [o |-> result, h |-> h]
      ELSE [o |-> result, h |-> Set(h, env, ae.Name.Value, result)]

evalAssignmentExpression(ae, env, h) ==
  LET v == Call("Eval", <<ae.Value, env, h>>)
  IN  IF Aborted(v.o) \/ isError(v.o) THEN v
      ELSE CASE ae.Operator = "=" ->
                  [o |-> v.o, h |-> Set(v.h, env, ae.Name.Value, v.o)]
             [] ae.Operator = "+=" -> CompoundAssign(ae, "+", env, v.o, v.h)
             [] ae.Operator = "-=" -> CompoundAssign(ae, "-", env, v.o, v.h)
             [] ae.Operator = "*=" -> CompoundAssign(ae, "*", env, v.o, v.h)
             [] ae.Operator = "/=" -> CompoundAssign(ae, "/", env, v.o, v.h)
             [] OTHER ->
                  [ o |-> newError("unknown assignment operator: " \o ae.Operator),
                    h |-> v.h ]

\* The loop of extendFunctionEnv over the parameters from paramIdx on,
\* counted from 1; ok is FALSE when args[paramIdx] is out of range.
RECURSIVE BindParameters(_, _, _, _, _)
BindParameters(params, paramIdx, args, env, h) ==
  IF paramIdx > Len(params) THEN [ok |-> TRUE, h |-> h]
  ELSE IF paramIdx > Len(args) THEN [ok |-> FALSE, h |-> h]
  ELSE BindParameters(params, paramIdx + 1, args, env,
                      Set(h, env, params[paramIdx].Value, args[paramIdx]))

\* extendFunctionEnv without the enclosed environment: the parameters are
\* bound in the captured environment and the body runs in it.
extendFunctionEnvCaptured(fn, args, h) ==
  LET b == BindParameters(fn.Parameters, 1, args, fn.Env, h)
  IN  [e |-> fn.Env, ok |-> b.ok, h |-> b.h]

\* Returns the new environment (e), ok and the heap.
extendFunctionEnv(fn, args, h) ==
  LET n == NewEnclosedEnvironment(h, fn.Env)
      b == BindParameters(fn.Parameters, 1, args, n.e, n.h)
  IN  [e |-> n.e, ok |-> b.ok, h |-> b.h]

applyFunction(fn, args, h) ==
  CASE fn.type = "FUNCTION" ->
         LET extendedEnv == extendFunctionEnv(fn, args, h)
             evaluated == Call("Eval", <<fn.Body, extendedEnv.e, Tick(extendedEnv.h)>>)
         IN  IF ~extendedEnv.ok
             THEN [o |-> Panic("index out of range"), h |-> extendedEnv.h]
             ELSE IF h.fuel = 0 THEN [o |-> Diverged, h |-> h]
             ELSE [o |-> unwrapReturnValue(evaluated.o), h |-> evaluated.h]
    [] fn.type = "BUILTIN" -> applyBuiltin(fn.Name, args, h)
    [] OTHER -> [o |-> newError("not a function: " \o GoObjType(fn)), h |-> h]

\* The "for" loop of evalWhileStatement; result is the value of the body
\* the last time it ran.
RECURSIVE WhileLoop(_, _, _, _)
WhileLoop(ws, env, h, result) ==
  LET c == Call("Eval", <<ws.Condition, env, h>>)
      b == Call("Eval", <<ws.Body, env, Tick(c.h)>>)
  IN  IF Aborted(c.o) \/ isError(c.o) THEN c
      ELSE IF ~isTruthy(c.o) THEN [o |-> result, h |-> c.h]
      ELSE IF c.h.fuel = 0 THEN [o |-> Diverged, h |-> c.h]
      ELSE IF Aborted(b.o) THEN b
      ELSE IF b.o.type \in {"RETURN_VALUE", "ERROR"} THEN b
      ELSE IF b.o.type = "BREAK" THEN [o |-> NULL, h |-> b.h]
      ELSE WhileLoop(ws, env, b.h, b.o)

evalWhileStatement(ws, env, h) == WhileLoop(ws, env, h, NULL)

\* The "for" loop of evalForStatement.
RECURSIVE ForLoop(_, _, _, _)
ForLoop(fs, forEnv, h, result) ==
  LET c == IF ~IsNilInterface(fs.Condition) THEN Call("Eval", <<fs.Condition, forEnv, h>>)
           ELSE [o |-> TRUE_, h |-> h]
      b == Call("Eval", <<fs.Body, forEnv, Tick(c.h)>>)
      inc == IF ~IsNilInterface(fs.Increment) THEN Call("Eval", <<fs.Increment, forEnv, b.h>>)
             ELSE [o |-> NULL, h |-> b.h]
  IN  IF Aborted(c.o) \/ isError(c.o) THEN c
      ELSE IF ~isTruthy(c.o) THEN [o |-> result, h |-> c.h]
      ELSE IF c.h.fuel = 0 THEN [o |-> Diverged, h |-> c.h]
      ELSE IF Aborted(b.o) THEN b
      ELSE IF b.o.type \in {"RETURN_VALUE", "ERROR"} THEN b
      ELSE IF b.o.type = "BREAK" THEN [o |-> NULL, h |-> b.h]
      ELSE IF Aborted(inc.o) \/ isError(inc.o) THEN inc
      ELSE ForLoop(fs, forEnv, inc.h, b.o)

\* evalForStatement without the enclosed environment: the initializer and
\* the loop run in the environment of the statement.
evalForStatementInPlace(fs, env, h) ==
  LET init == IF ~IsNilInterface(fs.Initializer)
              THEN Call("Eval", <<fs.Initializer, env, h>>)
              ELSE [o |-> NULL, h |-> h]
  IN  IF Aborted(init.o) \/ isError(init.o) THEN init
      ELSE ForLoop(fs, env, init.h, NULL)

evalForStatement(fs, env, h) ==
  LET n == NewEnclosedEnvironment(h, env)
      init == IF ~IsNilInterface(fs.Initializer) THEN Call("Eval", <<fs.Initializer, n.e, n.h>>)
              ELSE [o |-> NULL, h |-> n.h]
  IN  IF Aborted(init.o) \/ isError(init.o) THEN init
      ELSE ForLoop(fs, n.e, init.h, NULL)

\* The case *parser.InfixExpression of Eval that leaves the right operand
\* of && and || unevaluated when the left operand decides the result.
InfixExpressionShortCircuit(node, env, h) ==
  LET left == Call("Eval", <<node.Left, env, h>>)
      right == Call("Eval", <<node.Right, env, left.h>>)
  IN  IF Aborted(left.o) \/ isError(left.o) THEN left
      ELSE IF node.Operator = "&&" /\ ~isTruthy(left.o) THEN left
      ELSE IF node.Operator = "||" /\ isTruthy(left.o) THEN left
      ELSE IF Aborted(right.o) \/ isError(right.o) THEN right
      ELSE [ o |-> evalInfixExpression(node.Operator, left.o, right.o),
             h |-> right.h ]

\* The case *parser.InfixExpression of Eval.
InfixExpression(node, env, h) ==
  LET left == Call("Eval", <<node.Left, env, h>>)
      right == Call("Eval", <<node.Right, env, left.h>>)
  IN  IF Aborted(left.o) \/ isError(left.o) THEN left
      ELSE IF Aborted(right.o) \/ isError(right.o) THEN right
      ELSE [ o |-> evalInfixExpression(node.Operator, left.o, right.o),
             h |-> right.h ]

Eval(node, env, h) ==
  LET k == node.kind
  IN  CASE k = "nil" ->
             IF DerefsNil(node) THEN [o |-> NilDeref, h |-> h]
             ELSE [o |-> unknownNodeType(node), h |-> h]
        [] k = "Program" -> evalProgram(node.Statements, env, h)
        [] k = "ExpressionStatement" -> Call("Eval", <<node.Expression, env, h>>)
        [] k \in {"LetStatement", "ConstStatement"} ->
             LET val == Call("Eval", <<node.Value, env, h>>)
             IN  IF Aborted(val.o) \/ isError(val.o) THEN val
                 ELSE [o |-> val.o, h |-> Set(val.h, env, node.Name.Value, val.o)]
        [] k = "VarStatement" ->
             LET val == IF ~IsNilInterface(node.Value) THEN Call("Eval", <<node.Value, env, h>>)
                        ELSE [o |-> NULL, h |-> h]
             IN  IF Aborted(val.o) \/ isError(val.o) THEN val
                 ELSE [o |-> val.o, h |-> Set(val.h, env, node.Name.Value, val.o)]
        [] k = "ReturnStatement" ->
             LET val == Call("Eval", <<node.ReturnValue, env, h>>)
             IN  IF Aborted(val.o) \/ isError(val.o) THEN val
                 ELSE [ o |-> [ type |-> "RETURN_VALUE", Value |-> val.o,
                                id |-> val.h.nextId ],
                        h |-> Alloc(val.h) ]
        [] k = "BlockStatement" -> evalBlockStatement(node, env, h)
        [] k = "IntegerLiteral" -> [o |-> Integer(node.Value), h |-> h]
        [] k = "FloatLiteral" -> [o |-> Float(node.Value), h |-> h]
        [] k = "BooleanLiteral" ->
             [o |-> nativeBoolToPyMonkeyBool(node.Value), h |-> h]
        [] k = "StringLiteral" -> [o |-> String(node.Value), h |-> h]
        [] k = "NullLiteral" -> [o |-> NULL, h |-> h]
        [] k = "Identifier" -> [o |-> evalIdentifier(node, env, h), h |-> h]
        [] k = "PrefixExpression" ->
             LET right == Call("Eval", <<node.Right, env, h>>)
             IN  IF Aborted(right.o) \/ isError(right.o) THEN right
                 ELSE [ o |-> evalPrefixExpression(node.Operator, right.o),
                        h |-> right.h ]
        [] k = "InfixExpression" -> InfixExpression(node, env, h)
        [] k = "IfExpression" -> evalIfExpression(node, env, h)
        [] k = "ArrayLiteral" ->
             LET elements == evalExpressions(node.Elements, env, h)
             IN  IF /\ Len(elements.objs) = 1
                    /\ (Aborted(elements.objs[1]) \/ isError(elements.objs[1]))
                 THEN [o |-> elements.objs[1], h |-> elements.h]
                 ELSE [ o |-> [ type |-> "ARRAY", Elements |-> elements.objs,
                                id |-> elements.h.nextId ],
                        h |-> Alloc(elements.h) ]
        [] k = "IndexExpression" ->
             LET left == Call("Eval", <<node.Left, env, h>>)
                 index == Call("Eval", <<node.Index, env, left.h>>)
             IN  IF Aborted(left.o) \/ isError(left.o) THEN left
                 ELSE IF Aborted(index.o) \/ isError(index.o) THEN index
                 ELSE [o |-> evalIndexExpression(left.o, index.o), h |-> index.h]
        [] k = "ObjectLiteral" -> evalObjectLiteral(node, env, h)
        [] k = "CallExpression" ->
             LET function == Call("Eval", <<node.Function, env, h>>)
                 args == evalExpressions(node.Arguments, env, function.h)
             IN  IF Aborted(function.o) \/ isError(function.o) THEN function
                 ELSE IF /\ Len(args.objs) = 1
                         /\ (Aborted(args.objs[1]) \/ isError(args.objs[1]))
                 THEN [o |-> args.objs[1], h |-> args.h]
                 ELSE applyFunction(function.o, args.objs, args.h)
        [] k = "FunctionLiteral" ->
             [ o |-> [ type |-> "FUNCTION", Parameters |-> node.Parameters,
                       Body |-> node.Body, Env |-> env, id |-> h.nextId ],
               h |-> Alloc(h) ]
        [] k = "WhileStatement" -> evalWhileStatement(node, env, h)
        [] k = "ForStatement" -> evalForStatement(node, env, h)
        [] k = "BreakStatement" ->
             [o |-> [type |-> "BREAK", id |-> h.nextId], h |-> Alloc(h)]
        [] k = "ContinueStatement" ->
             [o |-> [type |-> "CONTINUE", id |-> h.nextId], h |-> Alloc(h)]
        [] k = "AssignmentExpression" -> evalAssignmentExpression(node, env, h)
        [] OTHER ->
             [o |-> unknownNodeType(node), h |-> h]

(***************************************************************************)
(* main.go and repl/repl.go: the command line.                              *)
(***************************************************************************)

\* The budget of loop iterations and calls of one evaluation.
MaxSteps == 12

\* The offsets at which the iteration of a map may start.
IterStarts == {0, 1}

\* The heap as an evaluation finds it and as it leaves it.
Charged(hp, iter) == [hp EXCEPT !.fuel = MaxSteps, !.iter = iter]
Settled(hp) == [hp EXCEPT !.fuel = 0, !.iter = 0]

\* Where the process is after Eval returned evaluated.
After(evaluated, then) ==
  CASE evaluated.type = "PANIC" -> "panic"
    [] evaluated.type = "DIVERGED" -> "hung"
    [] OTHER -> then

\* executeProgram(source, filename) with the map iteration starting at iter.
\* Returns the process position, the heap, the environment, the parser's
\* errors and the result of Eval.
executeProgram(source, iter, hp) ==
  LET parsed == Parse(source)
      errs == Errors(parsed.p)
      n == NewEnvironment(Charged(hp, iter))
      r == Call("Eval", <<parsed.n, n.e, n.h>>)
  IN  IF Len(errs) > 0
      THEN [ pc |-> "exit1", h |-> Write(hp, "Parsing errors", errs), env |-> 0,
             errors |-> errs, result |-> NilObj ]
      ELSE IF Aborted(r.o)
      THEN [ pc |-> After(r.o, "exit0"), h |-> Settled(r.h), env |-> n.e,
             errors |-> errs, result |-> r.o ]
      ELSE IF r.o.type = "ERROR"
      THEN [ pc |-> "exit1", h |-> Write(Settled(r.h), "Runtime error", r.o),
             env |-> n.e, errors |-> errs, result |-> r.o ]
      ELSE [ pc |-> "exit0",
             h |-> Write(Settled(r.h), "Program executed successfully.", <<>>),
             env |-> n.e, errors |-> errs, result |-> r.o ]

\* One turn of the loop with an Environment made for the line, as
\* executeProgram makes one for a file.
ReadEvalPrintFresh(line, iter, hp, e) ==
  LET parsed == Parse(line)
      errs == Errors(parsed.p)
      n == NewEnvironment(Charged(hp, iter))
      evaluated == Call("Eval", <<parsed.n, n.e, n.h>>)
  IN  IF Len(errs) # 0
      THEN [ pc |-> "repl", h |-> Write(hp, "parser errors", errs),
             errors |-> errs, result |-> NilObj ]
      ELSE IF Aborted(evaluated.o)
      THEN [ pc |-> After(evaluated.o, "repl"), h |-> Settled(evaluated.h),
             errors |-> errs, result |-> evaluated.o ]
      ELSE IF evaluated.o.type # "nil"
      THEN [ pc |-> "repl",
             h |-> Write(Settled(evaluated.h), "Inspect", evaluated.o),
             errors |-> errs, result |-> evaluated.o ]
      ELSE [ pc |-> "repl", h |-> Settled(evaluated.h), errors |-> errs,
             result |-> evaluated.o ]

\* One turn of the loop of repl.Start on the line scanned, with the map
\* iteration starting at iter.
ReadEvalPrint(line, iter, hp, e) ==
  LET parsed == Parse(line)
      errs == Errors(parsed.p)
      evaluated == Call("Eval", <<parsed.n, e, Charged(hp, iter)>>)
  IN  IF Len(errs) # 0
      THEN [ pc |-> "repl", h |-> Write(hp, "parser errors", errs),
             errors |-> errs, result |-> NilObj ]
      ELSE IF Aborted(evaluated.o)
      THEN [ pc |-> After(evaluated.o, "repl"), h |-> Settled(evaluated.h),
             errors |-> errs, result |-> evaluated.o ]
      ELSE IF evaluated.o.type # "nil"
      THEN [ pc |-> "repl",
             h |-> Write(Settled(evaluated.h), "Inspect", evaluated.o),
             errors |-> errs, result |-> evaluated.o ]
      ELSE [ pc |-> "repl", h |-> Settled(evaluated.h), errors |-> errs,
             result |-> evaluated.o ]

\* Eval on the statements of the text, in a new Environment, as the node
\* of the kind.
EvalSequence(kind, text) ==
  LET parsed == Parse(text)
      n == NewEnvironment(Charged(NewHeap(0, 0), 0))
  IN  Call("Eval", << [kind |-> kind, Statements |-> parsed.n.Statements],
                      n.e, n.h >>)

(***************************************************************************)
(* Call(fn, args) is the call of the function or method fn with the         *)
(* arguments args: Call("parseExpression", <<p, LOWEST>>) is                *)
(* p.parseExpression(LOWEST).                                               *)
(***************************************************************************)

Call(fn, args) ==
  CASE fn = "nextToken" -> nextToken(args[1])
    [] fn = "expectPeek" -> expectPeek(args[1], args[2])
    [] fn = "SkipSemicolon" -> SkipSemicolon(args[1])
    [] fn = "parseStatement" -> parseStatement(args[1])
    [] fn = "parseFunctionLiteral" -> parseFunctionLiteral(args[1])
    [] fn = "parseExpression" -> parseExpression(args[1], args[2])
    [] fn = "Eval" -> Eval(args[1], args[2], args[3])
    [] fn = "executeProgram" -> executeProgram(args[1], args[2], args[3])
    [] fn = "ReadEvalPrint" -> ReadEvalPrint(args[1], args[2], args[3], args[4])
    [] fn = "EvalSequence" -> EvalSequence(args[1], args[2])

VARIABLES
  pc,      \* where the process is: "main", "repl", "call", "return", "exit0",
           \* "exit1", "panic" (a Go panic ended it) or "hung" (it does not end)
  h,       \* the heap: the environments and standard output
  env,     \* the *Environment of the session, 0 before there is one
  op,      \* the operation last called, with its arguments
  errors,  \* p.Errors() of the last parse
  result,  \* what the last operation returned
  steps    \* how many operations were called

vars == <<pc, h, env, op, errors, result, steps>>

(***************************************************************************)
(* The source texts given to the interpreter.                               *)
(***************************************************************************)

\* The closure example of the README with the results of three calls
\* collected in an array; increment is the statement of the inner function
\* that increments count.
CounterProgram(increment) ==
  "let createCounter = function() { let count = 0; return function() { "
    \o increment \o " return count; }; }; let counter = createCounter(); "
    \o "[counter(), counter(), counter()]"

Increments == {"count += 1;", "count = count + 1;"}

\* A program that binds x to 1, runs one nested block of the given kind whose
\* body is the assignment, and ends with x.
ScopeProgram(block, assignment) ==
  CASE block = "if" -> "let x = 1; if (true) { " \o assignment \o " } x"
    [] block = "else" ->
         "let x = 1; if (false) { 0 } else { " \o assignment \o " } x"
    [] block = "while" ->
         "let x = 1; let i = 0; while (i < 1) { i = i + 1; " \o assignment
           \o " } x"
    [] block = "for" ->
         "let x = 1; for (let i = 0;; i < 1; i += 1) { " \o assignment \o " } x"
    [] block = "function" ->
         "let x = 1; let f = function() { " \o assignment \o " }; f(); x"

Blocks == {"if", "else", "while", "for", "function"}

Assignments == {"x = 2;", "x += 1;", "x = x * 5;"}

\* a op1 b op2 c, and the same with a op1 b in parentheses.
Arithmetic(a, op1, b, op2, c) == a \o " " \o op1 \o " " \o b \o " " \o op2 \o " " \o c

Grouped(a, op1, b, op2, c) ==
  "(" \o a \o " " \o op1 \o " " \o b \o ") " \o op2 \o " " \o c

ArithmeticOperators == {"+", "*", "**"}

ArithmeticPrograms ==
  { Arithmetic(a, op1, "3", op2, "2") :
      a \in {"2", "5"}, op1 \in ArithmeticOperators, op2 \in ArithmeticOperators }
  \cup
  { Grouped(a, op1, "3", op2, "2") :
      a \in {"2", "5"}, op1 \in ArithmeticOperators, op2 \in ArithmeticOperators }

\* The loop control example of the README with an accumulator: the counter
\* runs from 0 to 9, test is the test for an even counter.
LoopControlProgram(test) ==
  "let j = 0; let sum = 0; while (j < 10) { if (" \o test
    \o ") { j += 1; continue; } sum += j; j += 1; } sum"

EvenTests == {"j % 2 == 0", "j == 0"}

\* One program for each kind of node the evaluator has no case for.
UnimplementedProgram(kind) ==
  CASE kind = "SwitchStatement" -> "switch (1) { case 1: { 2 } default: { 3 } }"
    [] kind = "TryStatement" -> "try { 1 } catch (e) { 2 } finally { 3 }"
    [] kind = "ThrowStatement" -> "throw 1;"
    [] kind = "ImportStatement" -> "import \"m\" as x;"
    [] kind = "ExportStatement" -> "export let x = 1;"
    [] kind = "TernaryExpression" -> "true ? 1 : 2"
    [] kind = "DotExpression" -> "let a = 1; a.b"

Unimplemented ==
  { "SwitchStatement", "TryStatement", "ThrowStatement", "ImportStatement",
    "ExportStatement", "TernaryExpression", "DotExpression" }

\* Statements the grammar accepts and statements it does not.
WellFormed == {"let a = 1;", "a + 2;"}

Malformed ==
  { "let x 5;", "let = 3;", "if (a) { 1", "let f = function(a { 1 };", "(1 + ;",
    "let s = \"abc" }

TwoStatements == { a \o " " \o b : a \in WellFormed \cup Malformed,
                                   b \in WellFormed \cup Malformed }

\* The function declaration of testParser and the object literal of
\* testInterpreter.
FunctionDeclaration == "function add(a, b) { return a + b; }"
ObjectCreation == "{name: \"John\", age: 30}"

\* Composites with a sub-expression that is the Error of the unbound name
\* nope, before a sub-expression or a body that would print or assign.
ErrorIn(composite) == "let x = 1; " \o composite

Composites ==
  { "-nope", "nope + (x = 5)", "[nope, print(2)]", "print(nope, print(2))",
    "nope(print(2))", "nope[print(2)]", "[1][nope]",
    "let h = {nope: print(2)};", "let y = nope;", "const y = nope;",
    "var y = nope;", "if (nope) { print(2) }", "while (nope) { print(2) }",
    "for (let i = 0;; nope; i += 1) { print(2) }",
    "for (let y = nope;; y < 1; y += 1) { print(2) }" }

\* An object literal whose first value is the Error; the range over the
\* pairs may visit the second pair first.
ErrorInValue == "let x = 1; let h = {1: nope, 2: print(2)};"

\* A for statement over i = 0, 1, 2 whose body prints i, after a statement
\* that ends the body early when i is 1.
ForProgram(ending) ==
  "for (let i = 0;; i < 3; i += 1) { " \o ending \o " print(i) }"

Endings ==
  { "", "if (i == 1) { continue; }", "if (i == 1) { break; }",
    "if (i == 1) { return 7; }", "if (i == 1) { nope }" }

\* Programs whose && or || has a right operand that assigns, prints or is
\* the Error of the unbound name nope.
Logical(left, operator, right) ==
  "let x = 1; " \o left \o " " \o operator \o " " \o right \o "; x"

LogicalOperators == {"&&", "||"}
Lefts == {"true", "false", "null", "print(1)"}
Rights == {"(x = 5)", "print(2)", "nope"}

\* Calls of user functions: a body that returns before its last statement,
\* a body without return, a call in a block and in a loop of the caller, a
\* function that reads a name of the scope it was defined in.
Subtract(body) == "let f = function(a, b) { " \o body \o " }; f(5, 3)"
Bodies == {"return a - b; 9", "a - b", "let c = a - b; c", "return a - b;"}
CallInBlock == "let f = function() { return 1; }; if (true) { f(); 7 }"
CallInLoop ==
  "let f = function() { return 1; }; let i = 0; while (i < 2) { f(); i += 1 } i"
CallCaptured ==
  "let y = 1; let g = function() { y }; let f = function(y) { g() }; f(2)"

\* Chained assignments, and assignments to what is not an identifier.
Chained(operator) == "a " \o operator \o " b " \o operator \o " 1"
AssignmentOperators == {"=", "+=", "-=", "*=", "/="}
NotIdentifiers == {"a[0] = 1", "1 = 2"}

\* A function whose parameter is written as the empty string literal, called
\* with one argument.
EmptyParameter == "let f = fn(\"\") { 1 }; f(5)"

\* Loops whose last iteration ends with continue: i is 0 before the while.
ContinueLoops ==
  { "while (i < 1) { i += 1; continue; }",
    "for (let k = 0;; k < 1; k += 1) { continue; }" }

\* The loop alone, the loop followed by a statement in a block, and the
\* loop followed by a statement in the body of an enclosing loop.
LoopAlone(loop) == "let i = 0; " \o loop

LoopInBlock(loop) == "let i = 0; if (true) { " \o loop \o " print(7); }"

LoopInLoop(loop) ==
  "let a = 0; let i = 0; while (a < 2) { a += 1; " \o loop \o " print(a); }"

\* A function whose body executes break or continue outside any loop of
\* its own, called on its own and from the body of a loop of the caller.
Jumps == {"break;", "continue;"}

CallAlone(jump) == "let f = function() { " \o jump \o " }; f()"

CallInWhile(jump) ==
  "let f = function() { " \o jump
    \o " }; let i = 0; while (i < 2) { i += 1; f(); print(i); } i"

\* Programs in which the value of a declaration, an assignment, a call
\* argument, an array element or a hash value is an if-expression whose
\* block ends with break, continue or return.
LetBreak == "let i = 0; while (i < 1) { i += 1; let x = if (true) { break }; }"

AssignContinue ==
  "let x = 0; let i = 0; while (i < 1) { i += 1; x = if (true) { continue }; }"

ArgumentReturn == "let f = function(a) { 7 }; f(if (true) { return 1 })"

ElementReturn == "let a = [if (true) { return 1 }]"

EntryReturn == "let m = {\"k\": if (true) { return 1 }}"

SignalsAsValues ==
  {LetBreak, AssignContinue, ArgumentReturn, ElementReturn, EntryReturn}

\* Calls with fewer and with more arguments than the function has
\* parameters.
FewerArguments ==
  {"let f = function(a, b) { 7 }; f(1)", "let f = function(a) { 7 }; f()"}

MoreArguments == "let f = function(a) { a }; f(1, 2)"

\* Object literals with two entries: both values fail to evaluate, and
\* both values print.
TwoFailures == "let m = {\"a\": x, \"b\": y}"

TwoPrints == "let m = {\"a\": print(1), \"b\": print(2)}"

\* Texts that end inside the body of a function, an if, an else, a while
\* and a for, and inside the inner of two nested blocks.
Unclosed ==
  { "let f = function() { 7",
    "if (true) { 1",
    "if (false) { 1 } else { 2",
    "let i = 0; while (i < 1) { i += 1",
    "for (let k = 0;; k < 1; k += 1) { k",
    "if (true) { if (true) { 1 }" }

Sources ==
  { CounterProgram(increment) : increment \in Increments }
  \cup { ScopeProgram(block, assignment) :
           block \in Blocks, assignment \in Assignments }
  \cup ArithmeticPrograms
  \cup { LoopControlProgram(test) : test \in EvenTests }
  \cup { UnimplementedProgram(kind) : kind \in Unimplemented }
  \cup TwoStatements
  \cup {"5 / 0", "5.0 / 0", "let a = [1, 2, 3]; a[5]"}
  \cup {FunctionDeclaration, ObjectCreation}
  \cup { ErrorIn(composite) : composite \in Composites }
  \cup {ErrorInValue}
  \cup { ForProgram(ending) : ending \in Endings }
  \cup { Logical(left, operator, right) :
           left \in Lefts, operator \in LogicalOperators, right \in Rights }
  \cup { Subtract(body) : body \in Bodies }
  \cup {CallInBlock, CallInLoop, CallCaptured}
  \cup { Chained(operator) : operator \in AssignmentOperators }
  \cup NotIdentifiers
  \cup {EmptyParameter}
  \cup { LoopAlone(loop) : loop \in ContinueLoops }
  \cup { LoopInBlock(loop) : loop \in ContinueLoops }
  \cup { LoopInLoop(loop) : loop \in ContinueLoops }
  \cup { CallAlone(jump) : jump \in Jumps }
  \cup { CallInWhile(jump) : jump \in Jumps }
  \cup SignalsAsValues
  \cup FewerArguments
  \cup {MoreArguments}
  \cup {TwoFailures, TwoPrints}
  \cup Unclosed

\* The lines typed at the prompt of the REPL.
Lines == {"let x = 1", "x = x + 1", "x", "let y = x", "y", "let x 5", "let y = (2"}

\* How many lines the session reads.
MaxLines == 3

(***************************************************************************)
(* The command line: gokid run <file>, gokid repl.                          *)
(***************************************************************************)

Init ==
  /\ pc = "main"
  /\ h = NewHeap(0, 0)
  /\ env = 0
  /\ op = [name |-> "main"]
  /\ errors = <<>>
  /\ result = NilObj
  /\ steps = 0

\* main: case "run": runFile reads the file and calls executeProgram.
runFile ==
  /\ pc = "main"
  /\ \E source \in Sources, iter \in IterStarts :
       \E r \in {Call("executeProgram", <<source, iter, h>>)} :
           /\ op' = [name |-> "executeProgram", source |-> source]
           /\ pc' = r.pc
           /\ h' = r.h
           /\ env' = r.env
           /\ errors' = r.errors
           /\ result' = r.result
  /\ steps' = steps + 1

\* main: case "repl": startREPL calls repl.Start, which creates the
\* Environment of the session and prompts.
startREPL ==
  /\ pc = "main"
  /\ \E n \in {NewEnvironment(h)} :
       /\ env' = n.e
       /\ h' = Write(n.h, "GOKID_FACE", <<>>)
  /\ pc' = "repl"
  /\ op' = [name |-> "Start"]
  /\ UNCHANGED <<errors, result, steps>>

\* repl.Start: scanner.Scan() returned a line.
Scan ==
  /\ pc = "repl"
  /\ steps < MaxLines
  /\ \E line \in Lines, iter \in IterStarts :
       \E r \in {Call("ReadEvalPrint", <<line, iter, h, env>>)} :
           /\ op' = [name |-> "Scan", line |-> line]
           /\ pc' = r.pc
           /\ h' = r.h
           /\ errors' = r.errors
           /\ result' = r.result
  /\ steps' = steps + 1
  /\ UNCHANGED env

\* repl.Start: scanner.Scan() returned false, Start returns.
EndOfInput ==
  /\ pc = "repl"
  /\ pc' = "exit0"
  /\ op' = [name |-> "EndOfInput"]
  /\ UNCHANGED <<h, env, errors, result, steps>>

Next == runFile \/ startREPL \/ Scan \/ EndOfInput

Spec == Init /\ [][Next]_vars

(***************************************************************************)
(* The properties.                                                          *)
(***************************************************************************)

(***************************************************************************)
(* The environments on their own: chains are built with                     *)
(* NewEnclosedEnvironment, and Set and Get are called on any environment.   *)
(***************************************************************************)

MaxEnvs == 2
Names == {"x", "y"}
Values == {1, 2}

InitEnv ==
  /\ pc = "env"
  /\ h = NewEnvironment(NewHeap(0, 0)).h
  /\ env = 1
  /\ op = [name |-> "NewEnvironment", e |-> 1, key |-> "", ok |-> TRUE]
  /\ errors = <<>>
  /\ result = NilObj
  /\ steps = 0

Enclose ==
  /\ Len(h.envs) < MaxEnvs
  /\ \E outer \in 1..Len(h.envs) :
       /\ h' = NewEnclosedEnvironment(h, outer).h
       /\ env' = NewEnclosedEnvironment(h, outer).e
       /\ op' = [name |-> "NewEnclosedEnvironment", e |-> outer, key |-> "",
                 ok |-> TRUE]
  /\ result' = NilObj
  /\ UNCHANGED <<pc, errors, steps>>

SetName ==
  /\ \E e \in 1..Len(h.envs), name \in Names, v \in Values :
       /\ h' = Set(h, e, name, Integer(v))
       /\ op' = [name |-> "Set", e |-> e, key |-> name, ok |-> TRUE]
       /\ result' = Integer(v)
  /\ UNCHANGED <<pc, env, errors, steps>>

GetName ==
  /\ \E e \in 1..Len(h.envs), name \in Names :
       /\ op' = [name |-> "Get", e |-> e, key |-> name,
                 ok |-> Get(h, e, name).ok]
       /\ result' = Get(h, e, name).value
  /\ UNCHANGED <<pc, h, env, errors, steps>>

NextEnv == Enclose \/ SetName \/ GetName

SpecEnv == InitEnv /\ [][NextEnv]_vars

(***************************************************************************)
(* The operators on their own: evalInfixExpression and evalIndexExpression  *)
(* applied to operands of every type.                                       *)
(***************************************************************************)

Array(elements, id) == [type |-> "ARRAY", Elements |-> elements, id |-> id]

Operands ==
  << Integer(-1), Integer(0), Integer(1), Integer(3),
     Float(Rat(0, 1)), Float(Rat(3, 2)),
     String(""), String("a"), TRUE_, FALSE_, NULL,
     Array(<<>>, 1), Array(<<Integer(1), Integer(2), Integer(3)>>, 2) >>

Operators ==
  {"+", "-", "*", "/", "%", "**", "<", ">", "<=", ">=", "==", "!=", "&&", "||"}

\* The operator and the operands, as positions in Operands, are drawn first.
InitOps ==
  /\ pc = "ops"
  /\ h = NewHeap(0, 0)
  /\ env = 0
  /\ \E operator \in Operators, l \in 1..Len(Operands), r \in 1..Len(Operands) :
       op = [name |-> "", operator |-> operator, left |-> l, right |-> r]
  /\ errors = <<>>
  /\ result = NilObj
  /\ steps = 0

Infix ==
  /\ pc = "ops"
  /\ pc' = "done"
  /\ op' = [op EXCEPT !.name = "evalInfixExpression"]
  /\ result' = evalInfixExpression(op.operator, Operands[op.left],
                                   Operands[op.right])
  /\ UNCHANGED <<h, env, errors, steps>>

Index ==
  /\ pc = "ops"
  /\ pc' = "done"
  /\ op' = [op EXCEPT !.name = "evalIndexExpression", !.operator = "["]
  /\ result' = evalIndexExpression(Operands[op.left], Operands[op.right])
  /\ UNCHANGED <<h, env, errors, steps>>

NextOps == Infix \/ Index

SpecOps == InitOps /\ [][NextOps]_vars

(***************************************************************************)
(* Sequences of statements on their own: a text of some first statements,   *)
(* a statement that produces a signal and a later statement is parsed, and  *)
(* its statements are evaluated as a Program and as a BlockStatement.       *)
(***************************************************************************)

Firsts == {"let x = 1;", "let x = 1; x = 3;", "let x = 1; let y = x;"}
Signals == {"return 7;", "nope;", "break;", "continue;"}
Laters == {"x = 2;", "x += 1;", "let z = 5;", "print(x);", "x"}

\* The type of the object the statement produces.
SignalType(signal) ==
  CASE signal = "return 7;" -> "RETURN_VALUE"
    [] signal = "nope;" -> "ERROR"
    [] signal = "break;" -> "BREAK"
    [] signal = "continue;" -> "CONTINUE"

InitSeq ==
  /\ pc = "seq"
  /\ h = NewHeap(0, 0)
  /\ env = 0
  /\ \E first \in Firsts, signal \in Signals, later \in Laters :
       op = [name |-> "", first |-> first, signal |-> signal, later |-> later]
  /\ errors = <<>>
  /\ result = NilObj
  /\ steps = 0

EvalProgramNode ==
  /\ pc = "seq"
  /\ pc' = "done"
  /\ op' = [op EXCEPT !.name = "evalProgram"]
  /\ \E r \in {Call("EvalSequence",
                    <<"Program",
                      op.first \o " " \o op.signal \o " " \o op.later>>)} :
       /\ result' = r.o
       /\ h' = r.h
  /\ env' = 1
  /\ UNCHANGED <<errors, steps>>

EvalBlockNode ==
  /\ pc = "seq"
  /\ pc' = "done"
  /\ op' = [op EXCEPT !.name = "evalBlockStatement"]
  /\ \E r \in {Call("EvalSequence",
                    <<"BlockStatement",
                      op.first \o " " \o op.signal \o " " \o op.later>>)} :
       /\ result' = r.o
       /\ h' = r.h
  /\ env' = 1
  /\ UNCHANGED <<errors, steps>>

NextSeq == EvalProgramNode \/ EvalBlockNode

SpecSeq == InitSeq /\ [][NextSeq]_vars

(***************************************************************************)
(* The lexer and the parser on numerals: every text of digits and dots.    *)
(***************************************************************************)

\* The bytes the texts are made of.
NumeralBytes == {"0", "1", "8", "."}

\* The longest text.
MaxLen == 4

RECURSIVE TextsOf(_)
TextsOf(n) ==
  IF n = 0 THEN {""}
  ELSE { text \o byte : text \in TextsOf(n - 1), byte \in NumeralBytes }

Numerals ==
  UNION { TextsOf(n) : n \in 1..MaxLen } \cup {"5.", "1.2.3", "010", "08"}

InitLex ==
  /\ pc = "lex"
  /\ h = NewHeap(0, 0)
  /\ env = 0
  /\ \E input \in Numerals : op = [name |-> "", input |-> input]
  /\ errors = <<>>
  /\ result = <<>>
  /\ steps = 0

\* tokenizer.GetTokens(input): the tokens up to the EOF.
Tokenize ==
  /\ pc = "lex"
  /\ pc' = "done"
  /\ op' = [op EXCEPT !.name = "GetTokens"]
  /\ result' = GetTokens(op.input)
  /\ UNCHANGED <<h, env, errors, steps>>

\* executeProgram(input): the text parsed and evaluated as a program.
Execute ==
  /\ pc = "lex"
  /\ \E r \in {Call("executeProgram", <<op.input, 0, h>>)} :
       /\ op' = [op EXCEPT !.name = "executeProgram"]
       /\ pc' = r.pc
       /\ h' = r.h
       /\ env' = r.env
       /\ errors' = r.errors
       /\ result' = r.result
  /\ UNCHANGED steps

NextLex == Tokenize \/ Execute

SpecLex == InitLex /\ [][NextLex]_vars

\* executeProgram ran on the source.
Ran(source) == op.name = "executeProgram" /\ op.source = source

\* obj is the Integer n.
IsInteger(obj, n) == obj.type = "INTEGER" /\ obj.Value = n

\* obj is an Array of the Integers ns.
IsIntegers(obj, ns) ==
  /\ obj.type = "ARRAY"
  /\ Len(obj.Elements) = Len(ns)
  /\ \A i \in 1..Len(ns) : IsInteger(obj.Elements[i], ns[i])

\* C1: three successive calls of the inner function returned by the counter
\* example, which increments the captured variable with += or =, yield 1,
\* then 2, then 3.
C1_ClosureCounts ==
  \A increment \in Increments :
    Ran(CounterProgram(increment)) => IsIntegers(result, <<1, 2, 3>>)

\* The counter example ran and its three calls each returned 1.
C1_Witness ==
  /\ Ran(CounterProgram("count += 1;"))
  /\ IsIntegers(result, <<1, 1, 1>>)

C4_Precedence ==
  /\ Ran("5 + 3 * 2") => IsInteger(result, 11)
  /\ Ran("(5 + 3) * 2") => IsInteger(result, 16)
  /\ Ran("2 ** 3 * 2") => IsInteger(result, 16)

\* 2 ** 3 * 2 ran and ended in an Error.
C4_Witness == Ran("2 ** 3 * 2") /\ pc = "exit1" /\ result.type = "ERROR"

\* C5: the while loop over 0..9 that continues on an even counter, tested
\* with %, ends with the accumulator 25 and no Error.
C5_LoopControl ==
  Ran(LoopControlProgram("j % 2 == 0")) => IsInteger(result, 25)

\* The loop ran and ended in an Error.
C5_Witness ==
  Ran(LoopControlProgram("j % 2 == 0")) /\ result.type = "ERROR"

\* The environments from e outward.
RECURSIVE Chain(_, _)
Chain(heap, e) ==
  IF heap.envs[e].outer = 0 THEN <<e>>
  ELSE <<e>> \o Chain(heap, heap.envs[e].outer)

\* The environments of the chain of e that bind the name, innermost first.
Binding(heap, e, name) ==
  SelectSeq(Chain(heap, e), LAMBDA o : Bound(heap.envs[o].store, name))

\* C3: Set on an environment leaves every other environment as it was and
\* binds the name in the environment it is called on; Get returns the
\* innermost binding along the chain, and nothing when no environment of the
\* chain binds the name.
C3_SetIsLocal ==
  /\ [][op'.name = "Set" =>
          /\ \A o \in 1..Len(h.envs) : o # op'.e => h'.envs[o] = h.envs[o]
          /\ Bound(h'.envs[op'.e].store, op'.key)
          /\ Lookup(h'.envs[op'.e].store, op'.key) = result']_vars
  /\ [](op.name = "Get" =>
          LET binding == Binding(h, op.e, op.key)
          IN  /\ op.ok = (binding # <<>>)
              /\ op.ok => result = Lookup(h.envs[binding[1]].store, op.key))

\* Get on an inner environment returned the inner binding of a name that
\* an outer environment binds to another value.
C3_Witness ==
  /\ op.name = "Get" /\ op.ok
  /\ h.envs[op.e].outer # 0
  /\ Bound(h.envs[op.e].store, op.key)
  /\ Bound(h.envs[h.envs[op.e].outer].store, op.key)
  /\ Lookup(h.envs[h.envs[op.e].outer].store, op.key) # result

IsNumber(obj) == obj.type \in {"INTEGER", "FLOAT"}

IsZero(obj) ==
  \/ obj.type = "INTEGER" /\ obj.Value = 0
  \/ obj.type = "FLOAT" /\ obj.Value.num = 0

IsErrorWith(obj, message) == obj.type = "ERROR" /\ obj.Message = message

\* C6: the division of an Integer or a Float by Integer 0 or by a Float
\* zero is the Error "division by zero".
C6_DivisionByZero ==
  ( /\ op.name = "evalInfixExpression"
    /\ op.operator = "/"
    /\ IsNumber(Operands[op.left])
    /\ IsZero(Operands[op.right]) )
  => IsErrorWith(result, "division by zero")

\* An Integer was divided by Integer 0.
C6_Witness ==
  /\ op.name = "evalInfixExpression"
  /\ op.operator = "/"
  /\ Operands[op.left].type = "INTEGER"
  /\ Operands[op.right].type = "INTEGER"
  /\ IsZero(Operands[op.right])
  /\ result.type = "ERROR"

\* C7: an Array indexed with the Integer i gives its element at i when
\* 0 <= i < length and NULL for every other i.
C7_ArrayIndex ==
  ( /\ op.name = "evalIndexExpression"
    /\ Operands[op.left].type = "ARRAY"
    /\ Operands[op.right].type = "INTEGER" )
  => LET elements == Operands[op.left].Elements
         i == Operands[op.right].Value
     IN  IF 0 <= i /\ i < Len(elements)
         THEN IsInteger(result, elements[i + 1].Value)
         ELSE result.type = "NULL"

\* The empty array was indexed and the result is NULL.
C7_Witness ==
  /\ op.name = "evalIndexExpression"
  /\ Operands[op.left].type = "ARRAY"
  /\ Operands[op.left].Elements = <<>>
  /\ Operands[op.right].type = "INTEGER"
  /\ result.type = "NULL"

\* The pairs of operand types that evalInfixExpression supports.
Supported(operator, left, right) ==
  \/ left.type = "INTEGER" /\ right.type = "INTEGER"
  \/ left.type = "FLOAT" /\ IsNumber(right)
  \/ IsNumber(left) /\ right.type = "FLOAT"
  \/ left.type = "STRING" /\ right.type = "STRING"
  \/ left.type = "BOOLEAN" /\ right.type = "BOOLEAN"
  \/ operator \in {"==", "!="}

\* C13: for every operator, evalInfixExpression on a pair of operands whose
\* types are not a supported pair returns an Error; a Float with a String,
\* Boolean, Null or Array operand is such a pair.
C13_UnsupportedPairsAreErrors ==
  ( /\ op.name = "evalInfixExpression"
    /\ ~Supported(op.operator, Operands[op.left], Operands[op.right]) )
  => result.type = "ERROR"

\* A Float was added to a String and the evaluation panicked.
C13_Witness ==
  /\ op.name = "evalInfixExpression"
  /\ op.operator = "+"
  /\ Operands[op.left].type = "FLOAT"
  /\ Operands[op.right].type = "STRING"
  /\ result.type = "PANIC"

\* C18: with only NULL and FALSE falsy, a && b is TRUE exactly when both
\* operands are truthy and a || b is TRUE exactly when at least one is, and
\* FALSE otherwise, for operands of every type.
C18_TruthinessOfEveryType ==
  LET Truthy(obj) ==
        ~(obj.type = "NULL" \/ (obj.type = "BOOLEAN" /\ ~obj.Value))
      IsBoolean(obj, b) == obj.type = "BOOLEAN" /\ obj.Value = b
      left == Truthy(Operands[op.left])
      right == Truthy(Operands[op.right])
  IN  /\ (op.name = "evalInfixExpression" /\ op.operator = "&&")
           => IsBoolean(result, left /\ right)
      /\ (op.name = "evalInfixExpression" /\ op.operator = "||")
           => IsBoolean(result, left \/ right)

\* 0 && 1 was evaluated and the result is an Error.
C18_Witness ==
  /\ op.name = "evalInfixExpression"
  /\ op.operator = "&&"
  /\ IsInteger(Operands[op.left], 0)
  /\ IsInteger(Operands[op.right], 1)
  /\ result.type = "ERROR"

\* C8: a program with a node the evaluator does not implement (switch,
\* try/catch/finally, throw, import, export, ternary, dot access) parses
\* without errors and Eval returns an Error whose message begins with
\* "unknown node type"; the process does not abort.
C8_UnknownNodeType ==
  \A kind \in Unimplemented :
    Ran(UnimplementedProgram(kind)) =>
      /\ pc = "exit1"
      /\ errors = <<>>
      /\ result.type = "ERROR"
      /\ SubSeq(result.Message, 1, 17) = "unknown node type"

\* The program with a dot access ran and ended with the Error.
C8_Witness ==
  /\ Ran(UnimplementedProgram("DotExpression"))
  /\ result.type = "ERROR"
  /\ pc = "exit1"

\* C9: ParseProgram returns for every source text, and for a text of two
\* malformed statements the error list has a message for each of them.
C9_ErrorForEachMalformed ==
  \A a \in Malformed, b \in Malformed :
    Ran(a \o " " \o b) => pc = "exit1" /\ Len(errors) >= 2

\* An unclosed block followed by a let without = was parsed with fewer
\* than two errors.
C9_Witness ==
  /\ Ran("if (a) { 1 let x 5;")
  /\ Len(errors) < 2

\* C10: a line scanned by the REPL is evaluated in the one Environment of
\* the session, whose bindings stay bound; a line with parse errors is not
\* evaluated, leaves every Environment as it was and the loop goes on; a
\* binding made by a line is in the session's Environment, where a later
\* line that names it finds it.
C10_SessionEnvironment ==
  /\ [][op'.name = "Scan" =>
          /\ env' = env
          /\ \A i \in 1..Len(h.envs[env].store) :
               Bound(h'.envs[env].store, h.envs[env].store[i].name)
          /\ errors' # <<>> =>
               h'.envs = h.envs /\ pc' = "repl" /\ result'.type = "nil"]_vars
  /\ []( (op.name = "Scan" /\ op.line = "let x = 1") =>
           /\ Bound(h.envs[env].store, "x")
           /\ IsInteger(Lookup(h.envs[env].store, "x"), 1) )
  /\ []( (op.name = "Scan" /\ op.line \in {"x", "y"}
            /\ Bound(h.envs[env].store, op.line)) =>
           result = Lookup(h.envs[env].store, op.line) )

\* The line y was scanned after let x = 1 and let y = x, and gave 1.
C10_Witness ==
  /\ op.name = "Scan"
  /\ op.line = "y"
  /\ steps = 3
  /\ IsInteger(result, 1)

\* C11: the named function declaration function add(a, b) { return a + b; }
\* parses with no errors.
C11_FunctionDeclarationParses ==
  Ran(FunctionDeclaration) => errors = <<>>

\* The declaration was parsed with errors and was not evaluated.
C11_Witness ==
  /\ Ran(FunctionDeclaration)
  /\ Len(errors) > 0
  /\ pc = "exit1"

\* C12: the object literal {name: "John", age: 30}, in an environment where
\* name and age are unbound, evaluates to a Hash with one entry per key.
C12_BareKeys ==
  Ran(ObjectCreation) => result.type = "HASH" /\ Len(result.Pairs) = 2

\* The object literal was evaluated to an Error.
C12_Witness ==
  /\ Ran(ObjectCreation)
  /\ errors = <<>>
  /\ IsErrorWith(result, "identifier not found: name")

\* The heap after the statements up to the signal were evaluated as the node
\* of the kind: what is bound and what was written when the signal is
\* produced.
UpToSignal(kind) ==
  Call("EvalSequence", <<kind, op.first \o " " \o op.signal>>).h

\* C14 as stated: in program evaluation and in block evaluation alike, when
\* a statement produces a ReturnValue, Error, Break or Continue the later
\* statement is not executed and the result is that signal object.
C14_SignalsHaltEverySequence ==
  /\ op.name = "evalProgram" =>
       result.type = SignalType(op.signal) /\ h = UpToSignal("Program")
  /\ op.name = "evalBlockStatement" =>
       result.type = SignalType(op.signal) /\ h = UpToSignal("BlockStatement")

\* C14 amended: in block evaluation the four signals end the block and the
\* signal object is the result; in program evaluation a ReturnValue and an
\* Error end the program, and the result is the value inside the
\* ReturnValue, or the Error itself.
C14_SignalsHalt ==
  /\ op.name = "evalBlockStatement" =>
       /\ result.type = SignalType(op.signal)
       /\ h = UpToSignal("BlockStatement")
       /\ op.signal = "return 7;" => IsInteger(result.Value, 7)
  /\ (op.name = "evalProgram" /\ op.signal = "return 7;") =>
       IsInteger(result, 7) /\ h = UpToSignal("Program")
  /\ (op.name = "evalProgram" /\ op.signal = "nope;") =>
       /\ IsErrorWith(result, "identifier not found: nope")
       /\ h = UpToSignal("Program")

\* A block whose second statement is a return and whose last is an
\* assignment to x was evaluated: the result is the ReturnValue and x is
\* still 1.
C14_Witness ==
  /\ op.name = "evalBlockStatement"
  /\ op.first = "let x = 1;"
  /\ op.signal = "return 7;"
  /\ op.later = "x = 2;"
  /\ result.type = "RETURN_VALUE"
  /\ IsInteger(Lookup(h.envs[env].store, "x"), 1)

\* C15: when a sub-expression of a composite (an operand of a prefix or
\* infix expression, an array element, a call's function or argument, an
\* index operand, a hash key or value, the initializer of a declaration, the
\* condition of an if or a loop) is an Error, the composite is that Error,
\* nothing after it is evaluated (nothing is printed, x is not assigned) and
\* the name being declared is not bound.
C15_ErrorsShortCircuit ==
  /\ \A composite \in Composites :
       Ran(ErrorIn(composite)) =>
         /\ IsErrorWith(result, "identifier not found: nope")
         /\ h.out = <<Written("Runtime error", result)>>
         /\ h.envs[env].store = <<[name |-> "x", val |-> Integer(1)]>>
         /\ \A e \in 1..Len(h.envs) :
              ~Bound(h.envs[e].store, "y") /\ ~Bound(h.envs[e].store, "h")
  /\ Ran(ErrorInValue) =>
       /\ IsErrorWith(result, "identifier not found: nope")
       /\ h.envs[env].store = <<[name |-> "x", val |-> Integer(1)]>>

\* The array literal with the Error as its first element ran: the result
\* is the Error and nothing was printed.
C15_Witness ==
  /\ Ran(ErrorIn("[nope, print(2)]"))
  /\ result.type = "ERROR"
  /\ Len(h.out) = 1

\* The Integers that print wrote, in order.
Printed ==
  LET prints == SelectSeq(h.out, LAMBDA w : w.kind = "print")
  IN  [j \in 1..Len(prints) |-> prints[j].what[1].Value]

\* C16: a for statement makes one child Environment for the whole loop and
\* evaluates the initializer once in it; the increment is evaluated after a
\* body that ends normally or with Continue, and not after a body that ends
\* with Break, Return or an Error; the initializer's binding is not in the
\* enclosing Environment after the loop.
C16_ForStatement ==
  \A ending \in Endings :
    Ran(ForProgram(ending)) =>
      /\ Len(h.envs) = 2
      /\ h.envs[2].outer = env
      /\ ~Bound(h.envs[env].store, "i")
      /\ Bound(h.envs[2].store, "i")
      /\ CASE ending = "" ->
                Printed = <<0, 1, 2>> /\ IsInteger(Lookup(h.envs[2].store, "i"), 3)
           [] ending = "if (i == 1) { continue; }" ->
                Printed = <<0, 2>> /\ IsInteger(Lookup(h.envs[2].store, "i"), 3)
           [] ending = "if (i == 1) { break; }" ->
                /\ Printed = <<0>>
                /\ IsInteger(Lookup(h.envs[2].store, "i"), 1)
                /\ result.type = "NULL"
           [] ending = "if (i == 1) { return 7; }" ->
                /\ Printed = <<0>>
                /\ IsInteger(Lookup(h.envs[2].store, "i"), 1)
                /\ IsInteger(result, 7)
           [] ending = "if (i == 1) { nope }" ->
                /\ Printed = <<0>>
                /\ IsInteger(Lookup(h.envs[2].store, "i"), 1)
                /\ IsErrorWith(result, "identifier not found: nope")

\* The loop with continue ran to its end: 0 and 2 were printed and i is 3
\* in the child Environment.
C16_Witness ==
  /\ Ran(ForProgram("if (i == 1) { continue; }"))
  /\ pc = "exit0"
  /\ Len(h.envs) = 2
  /\ Printed = <<0, 2>>

\* C17: the right operand of && and of || is evaluated whatever the left
\* operand is (its assignment happens, its print is written, its Error is
\* the result), and after the left operand (the left print comes first).
C17_NoShortCircuit ==
  \A left \in Lefts, operator \in LogicalOperators :
    /\ Ran(Logical(left, operator, "(x = 5)")) =>
         /\ IsInteger(result, 5)
         /\ IsInteger(Lookup(h.envs[env].store, "x"), 5)
    /\ Ran(Logical(left, operator, "print(2)")) =>
         Printed = (IF left = "print(1)" THEN <<1, 2>> ELSE <<2>>)
    /\ Ran(Logical(left, operator, "nope")) =>
         /\ IsErrorWith(result, "identifier not found: nope")
         /\ Printed = (IF left = "print(1)" THEN <<1>> ELSE <<>>)

\* false && (x = 5) was evaluated and x is 5.
C17_Witness ==
  /\ Ran(Logical("false", "&&", "(x = 5)"))
  /\ pc = "exit0"
  /\ IsInteger(result, 5)

C20_RightAssociative ==
  /\ \A operator \in AssignmentOperators :
       Ran(Chained(operator)) => errors = <<>>
  /\ \A source \in NotIdentifiers : Ran(source) => Len(errors) > 0

\* a = b = 1 was parsed with the error that its left-hand side, the
\* assignment a = b, is not an identifier.
C20_Witness ==
  /\ Ran(Chained("="))
  /\ pc = "exit1"
  /\ errors = <<"expected identifier, got *parser.AssignmentExpression">>

\* C21: while a program that parsed without errors is evaluated, and after
\* it, no Environment holds a binding whose name is the empty string.
C21_NoEmptyName ==
  errors = <<>> =>
    \A e \in 1..Len(h.envs) : ~Bound(h.envs[e].store, "")

\* The function with the parameter "" was called with 5: the program
\* parsed without errors, ended with the body's 1, and the Environment of
\* the call binds the empty name to 5.
C21_Witness ==
  /\ Ran(EmptyParameter)
  /\ errors = <<>>
  /\ IsInteger(result, 1)
  /\ \E e \in 1..Len(h.envs) :
       h.envs[e].store = <<[name |-> "", val |-> Integer(5)]>>

\* The literals of the tokens, one after the other.
RECURSIVE Literals(_)
Literals(toks) ==
  IF toks = <<>> THEN "" ELSE Head(toks).Literal \o Literals(Tail(toks))

AllDigits(text) ==
  Len(text) > 0 /\ \A i \in 0..(Len(text) - 1) : isDigit(ByteAt(text, i))

\* An INT is a run of digits, a FLOAT is digits, a dot and digits, and
\* the only other token of a numeral is the dot.
WellShaped(tok) ==
  CASE tok.Type = "INT" -> AllDigits(tok.Literal)
    [] tok.Type = "FLOAT" ->
         \E k \in 1..(Len(tok.Literal) - 2) :
           /\ AllDigits(SubSeq(tok.Literal, 1, k))
           /\ ByteAt(tok.Literal, k) = "."
           /\ AllDigits(SubSeq(tok.Literal, k + 2, Len(tok.Literal)))
    [] tok.Type = "." -> tok.Literal = "."
    [] OTHER -> FALSE

StartsWithDigit(tok) == isDigit(ByteAt(tok.Literal, 0))

\* C22: the tokens of a text of digits and dots are INT, FLOAT and DOT
\* tokens that cover the text; the run of digits of an INT or the
\* fractional digits of a FLOAT are maximal (no digit follows the token);
\* digits followed by a dot and a digit are never an INT (they are one
\* FLOAT), and a dot that no digit follows is a token of its own: "5." is
\* INT(5), DOT and "1.2.3" is FLOAT(1.2), DOT, INT(3).
C22_NumberLexing ==
  op.name = "GetTokens" =>
    /\ Literals(result) = op.input
    /\ \A i \in 1..Len(result) : WellShaped(result[i])
    /\ \A i \in 1..(Len(result) - 1) :
         result[i].Type \in {"INT", "FLOAT"} => ~StartsWithDigit(result[i + 1])
    /\ \A i \in 1..(Len(result) - 2) :
         result[i].Type = "INT" /\ result[i + 1].Type = "."
           => ~StartsWithDigit(result[i + 2])
    /\ op.input = "5." => result = <<Token("INT", "5"), Token(".", ".")>>
    /\ op.input = "1.2.3" =>
         result = <<Token("FLOAT", "1.2"), Token(".", "."), Token("INT", "3")>>

\* The tokens of 1.2.3 were read: a FLOAT, the dot left over, an INT.
C22_Witness ==
  /\ op.name = "GetTokens"
  /\ op.input = "1.2.3"
  /\ Len(result) = 3
  /\ result[1] = Token("FLOAT", "1.2")
  /\ result[2].Type = "."

\* The number a string of decimal digits denotes.
RECURSIVE DecimalValue(_)
DecimalValue(text) ==
  IF text = "" THEN 0
  ELSE 10 * DecimalValue(SubSeq(text, 1, Len(text) - 1))
         + DigitValue(ByteAt(text, Len(text) - 1))

\* C29: a program that is one integer literal of decimal digits, leading
\* zeros included, parses without error and evaluates to the Integer whose
\* value is the decimal value of the digits.
C29_DecimalLiteral ==
  op.name = "executeProgram" /\ AllDigits(op.input) =>
    /\ errors = <<>>
    /\ IsInteger(result, DecimalValue(op.input))

\* 010 was parsed and evaluated: no error, and the Integer is 8.
C29_Witness ==
  /\ op.name = "executeProgram"
  /\ op.input = "010"
  /\ errors = <<>>
  /\ IsInteger(result, 8)

\* C23: a while or for loop whose last iteration ended with continue and
\* whose condition then became false has a value that is neither a
\* Continue nor a Break; the statement after the loop in the enclosing
\* block is executed (7 is printed), and the enclosing loop goes on to the
\* statement after the inner loop in each of its iterations (1 and 2 are
\* printed).
C23_ContinueIsConsumed ==
  \A loop \in ContinueLoops :
    /\ Ran(LoopAlone(loop)) => result.type \notin {"CONTINUE", "BREAK"}
    /\ Ran(LoopInBlock(loop)) => Printed = <<7>>
    /\ Ran(LoopInLoop(loop)) => Printed = <<1, 2>>

\* The while loop in the block ended after an iteration that ended with
\* continue: the program finished without error, nothing was printed and
\* its result is the Continue.
C23_Witness ==
  /\ Ran(LoopInBlock("while (i < 1) { i += 1; continue; }"))
  /\ pc = "exit0"
  /\ result.type = "CONTINUE"
  /\ Printed = <<>>

\* C24: the value of a call of a function whose body executes break or
\* continue outside any loop is neither a Break nor a Continue, and a loop
\* of the caller that makes the call in its body runs all its iterations
\* and the statements after the call (1 and 2 are printed, i ends as 2).
C24_NoJumpAcrossCall ==
  \A jump \in Jumps :
    /\ Ran(CallAlone(jump)) => result.type \notin {"BREAK", "CONTINUE"}
    /\ Ran(CallInWhile(jump)) => Printed = <<1, 2>> /\ IsInteger(result, 2)

\* The loop called the function that executes break: it ended in its
\* first iteration, with i equal to 1 and nothing printed.
C24_Witness ==
  /\ Ran(CallInWhile("break;"))
  /\ pc = "exit0"
  /\ IsInteger(result, 1)
  /\ Printed = <<>>

IsSignal(obj) == obj.type \in {"RETURN_VALUE", "BREAK", "CONTINUE", "ERROR"}

\* An element of the Array, a key or a value of the Hash, or an element or
\* entry of one of those, is a signal.
RECURSIVE HoldsSignal(_)
HoldsSignal(obj) ==
  CASE obj.type = "ARRAY" ->
         \E i \in 1..Len(obj.Elements) :
           IsSignal(obj.Elements[i]) \/ HoldsSignal(obj.Elements[i])
    [] obj.type = "HASH" ->
         \E i \in 1..Len(obj.Pairs) :
           \/ IsSignal(obj.Pairs[i].Key) \/ HoldsSignal(obj.Pairs[i].Key)
           \/ IsSignal(obj.Pairs[i].Value) \/ HoldsSignal(obj.Pairs[i].Value)
    [] OTHER -> FALSE

\* C25: no binding of any Environment (the parameters of a call are
\* bindings of the call's Environment) is a ReturnValue, Break, Continue
\* or Error, and no Array or Hash bound to a name holds one.
C25_NoStoredSignal ==
  \A e \in 1..Len(h.envs) :
    \A i \in 1..Len(h.envs[e].store) :
      /\ ~IsSignal(h.envs[e].store[i].val)
      /\ ~HoldsSignal(h.envs[e].store[i].val)

\* The call whose argument is an if-expression ending in return ran: the
\* body's 7 is the result, and the parameter a is bound to the ReturnValue
\* that wraps 1.
C25_Witness ==
  /\ Ran(ArgumentReturn)
  /\ IsInteger(result, 7)
  /\ \E e \in 1..Len(h.envs) :
       /\ Bound(h.envs[e].store, "a")
       /\ Lookup(h.envs[e].store, "a").type = "RETURN_VALUE"
       /\ IsInteger(Lookup(h.envs[e].store, "a").Value, 1)

\* C26: a call with fewer arguments than parameters does not abort the
\* evaluator, the program ends with a value or an Error; a call with more
\* arguments than parameters binds the parameters to the first arguments
\* and evaluates the body (f(1, 2) with the body a is 1).
C26_ArgumentCount ==
  /\ \A source \in FewerArguments :
       Ran(source) => pc \in {"exit0", "exit1"} /\ ~Aborted(result)
  /\ Ran(MoreArguments) => pc = "exit0" /\ IsInteger(result, 1)

\* The function of two parameters was called with one argument: the
\* evaluator stopped with Go's index out of range panic, having written
\* nothing.
C26_Witness ==
  /\ Ran("let f = function(a, b) { 7 }; f(1)")
  /\ errors = <<>>
  /\ pc = "panic"
  /\ result = Panic("index out of range")
  /\ h.out = <<>>

\* C27: every evaluation of an object literal in a fresh Environment gives
\* the same result, the one of evaluating its entries in source order: of
\* two values that fail the Error is the first one's, and of two values
\* that print the first one's output comes first.
C27_ObjectLiteralInSourceOrder ==
  /\ Ran(TwoFailures) => IsErrorWith(result, "identifier not found: x")
  /\ Ran(TwoPrints) => Printed = <<1, 2>>

\* The literal whose two values fail was evaluated and the Error is the
\* second value's.
C27_Witness ==
  /\ Ran(TwoFailures)
  /\ pc = "exit1"
  /\ IsErrorWith(result, "identifier not found: y")

\* C28: a text that reaches its end inside a block opened with { and not
\* closed (the body of a function, an if, an else, a while or a for)
\* records at least one parse error.
C28_UnclosedBlockIsAnError ==
  \A source \in Unclosed : Ran(source) => Len(errors) > 0

\* The if whose block is not closed was parsed without error and
\* evaluated: the program ended successfully with the block's 1.
C28_Witness ==
  /\ Ran("if (true) { 1")
  /\ errors = <<>>
  /\ pc = "exit0"
  /\ IsInteger(result, 1)

====
